---- MODULE Spec2Model ----
(***************************************************************************)
(* Alpha Clash TCG rules-support layer: the turn/phase state machine       *)
(* (src/src/managers/TurnManager.ts) with the phase helpers of the types   *)
(* module (src/unnamed/part_001), and the life and token managers          *)
(* (src/unnamed/part_004).  The three managers share no state.             *)
(*                                                                         *)
(* Every public method is a pure operator from the manager's fields (and   *)
(* its argument) to the fields after the call, the value returned or the   *)
(* error thrown, and the events it hands to the listeners; one action per  *)
(* method applies the operator to the variables.  Positions in arrays are  *)
(* 0-based as in the source (indexOf, at).                                 *)
(***************************************************************************)
EXTENDS Integers, Sequences, FiniteSets, TLC

VARIABLES
    state,            \* TurnManager.state : TurnState
    config,           \* TurnManager.config (skipFirstDraw is the only field read)
    turnListeners,    \* TurnManager.turnListeners : Set, in insertion order
    phaseListeners,   \* TurnManager.phaseListeners : Set, in insertion order
    lifeTotals,       \* LifeManager.lifeTotals : Map, entries in insertion order
    lifeConfig,       \* LifeManager.config
    lifeListeners,    \* LifeManager.listeners : Set, in insertion order
    tokens,           \* TokenManager.tokens : Map from card id to TokenState
    tokenConfig,      \* TokenManager.config
    snapshot,         \* the value the caller holds from the last serialize(), or NoSnapshot
    other,            \* a second manager constructed by the caller, or NoManager; where
                      \* objects are told apart, the store of the objects
    call,             \* the last public call: method, argument, thrown?, returned value
    delivered         \* the callback invocations made during the last call, in order

turnVars == <<state, config, turnListeners, phaseListeners>>

lifeVars == <<lifeTotals, lifeConfig, lifeListeners>>

tokenVars == <<tokens, tokenConfig>>

vars == <<state, config, turnListeners, phaseListeners, lifeVars, tokenVars,
          snapshot, other, call, delivered>>

----------------------------------------------------------------------------
(* Bounds of the model *)

\* endTurn (and nextPhase from 'end') is not taken once turnNumber reaches MaxTurn
MaxTurn == 3

----------------------------------------------------------------------------
(* types: TURN_PHASES, getNextPhase *)

TURN_PHASES == <<"start", "untap", "draw", "resource", "main", "clash", "main2", "end">>

PhaseSet == {TURN_PHASES[i] : i \in 1..Len(TURN_PHASES)}

\* Array.prototype.indexOf: 0-based position of the first occurrence, -1 if absent
indexOf(arr, x) ==
    IF \E i \in 1..Len(arr) : arr[i] = x
    THEN (CHOOSE i \in 1..Len(arr) : arr[i] = x /\ \A j \in 1..(i - 1) : arr[j] # x) - 1
    ELSE -1

\* arr[i] with a 0-based index; "undefined" outside the array
at(arr, i) == IF i >= 0 /\ i < Len(arr) THEN arr[i + 1] ELSE "undefined"

\* Array.prototype.includes
includes(arr, x) == indexOf(arr, x) # -1

\* mutation of getNextPhase: the last-index test is off by one, so 'main2' wraps to
\* 'start' and 'end' is never entered
getNextPhase_WrapEarly(currentPhase) ==
    LET index == indexOf(TURN_PHASES, currentPhase) IN
    IF index = -1 \/ index = Len(TURN_PHASES) - 2
    THEN "start"
    ELSE LET nextPhase_ == at(TURN_PHASES, index + 1) IN
         IF nextPhase_ = "undefined" THEN "start" ELSE nextPhase_

\* mutation of getNextPhase: the step is two positions instead of one
getNextPhase_Skip(currentPhase) ==
    LET index == indexOf(TURN_PHASES, currentPhase) IN
    IF index = -1 \/ index = Len(TURN_PHASES) - 1
    THEN "start"
    ELSE LET nextPhase_ == at(TURN_PHASES, index + 2) IN
         IF nextPhase_ = "undefined" THEN "start" ELSE nextPhase_

getNextPhase(currentPhase) ==
    LET index == indexOf(TURN_PHASES, currentPhase) IN
    IF index = -1 \/ index = Len(TURN_PHASES) - 1
    THEN "start"
    ELSE LET nextPhase_ == at(TURN_PHASES, index + 1) IN
         IF nextPhase_ = "undefined" THEN "start" ELSE nextPhase_

\* mutation of isValidPhaseTransition: any later phase is accepted
isValidPhaseTransition_AnyForward(from, to) ==
    LET fromIndex == indexOf(TURN_PHASES, from)
        toIndex == indexOf(TURN_PHASES, to)
    IN toIndex > fromIndex \/ (from = "end" /\ to = "start")

\* one step forward, or back to 'start' from 'end'
isValidPhaseTransition(from, to) ==
    LET fromIndex == indexOf(TURN_PHASES, from)
        toIndex == indexOf(TURN_PHASES, to)
    IN toIndex = fromIndex + 1 \/ (from = "end" /\ to = "start")

----------------------------------------------------------------------------
(* TurnManager: constants *)

ActionNames == {"canDraw", "canPlayResource", "canPlayCards", "canAttack", "canActivateAbilities"}

NoActions ==
    [canDraw |-> FALSE, canPlayResource |-> FALSE, canPlayCards |-> FALSE,
     canAttack |-> FALSE, canActivateAbilities |-> FALSE]

DEFAULT_PHASE_ACTIONS ==
    [p \in PhaseSet |->
        CASE p = "start"    -> NoActions
          [] p = "untap"    -> NoActions
          [] p = "draw"     -> [NoActions EXCEPT !.canDraw = TRUE]
          [] p = "resource" -> [NoActions EXCEPT !.canPlayResource = TRUE]
          [] p = "main"     -> [NoActions EXCEPT !.canPlayCards = TRUE, !.canActivateAbilities = TRUE]
          [] p = "clash"    -> [NoActions EXCEPT !.canAttack = TRUE, !.canActivateAbilities = TRUE]
          [] p = "main2"    -> [NoActions EXCEPT !.canPlayCards = TRUE, !.canActivateAbilities = TRUE]
          [] p = "end"      -> NoActions]

\* the two player ids given to the constructor (the ids of the test suite)
player1Id == "player-1"
player2Id == "player-2"
playerIds == <<player1Id, player2Id>>

\* the callbacks a caller may register; those of ThrowingListeners throw when invoked
Listeners == {"cb1", "cb2"}
ThrowingListeners == {"cb2"}

\* the one callback registered where snapshots are taken and restored (SpecAll)
SingleListener == {"cb1"}

\* the arguments given to setPhase: the eight phases and one value outside them
PhaseArgs == PhaseSet \cup {"invalid"}

NoSnapshot == [kind |-> "none"]
NoManager == [kind |-> "none"]
Void == [kind |-> "void"]

----------------------------------------------------------------------------
(* TurnManager: listener sets and notification *)

\* mutation of Set.prototype.add: an array push, which keeps duplicates
setAdd_Push(s, x) == Append(s, x)

\* Set.prototype.add: appended unless already present
setAdd(s, x) == IF \E i \in 1..Len(s) : s[i] = x THEN s ELSE Append(s, x)

\* Set.prototype.delete
setDelete(s, x) == SelectSeq(s, LAMBDA y : y # x)

\* the invocations d, each with the fields of the manager as they stand while the
\* callbacks run: what the manager's getters return to a callback that calls them
during(d, visible) ==
    [i \in 1..Len(d) |->
        [listener |-> d[i].listener, event |-> d[i].event, caught |-> d[i].caught,
         seen |-> visible]]

\* one invocation per registered callback, in insertion order; a throw is caught
notifyTurnListeners(listeners, event) ==
    [i \in 1..Len(listeners) |->
        [listener |-> listeners[i], event |-> event,
         caught |-> listeners[i] \in ThrowingListeners]]

notifyPhaseListeners(listeners, event) ==
    [i \in 1..Len(listeners) |->
        [listener |-> listeners[i], event |-> event,
         caught |-> listeners[i] \in ThrowingListeners]]

----------------------------------------------------------------------------
(* TurnManager: the methods, as functions of the fields *)

\* constructor
newState ==
    [turnNumber |-> 1, phase |-> "start", activePlayerId |-> player1Id,
     phaseActionsRemaining |-> DEFAULT_PHASE_ACTIONS["start"]]

getTurnNumber(s) == s.turnNumber
getCurrentPhase(s) == s.phase
getActivePlayerId(s) == s.activePlayerId
getInactivePlayerId(s) ==
    IF playerIds[1] = s.activePlayerId THEN playerIds[2] ELSE playerIds[1]
isPlayerTurn(s, playerId) == s.activePlayerId = playerId
getPhaseActions(s) == s.phaseActionsRemaining
canPerformAction(s, action) == s.phaseActionsRemaining[action]
getState(s) == s

\* mutation of endTurn: the turn listeners are not told
endTurn_NoEvent(s, tl) ==
    LET previousTurn == s.turnNumber
        s1 == [s EXCEPT !.activePlayerId =
                            IF s.activePlayerId = playerIds[1] THEN playerIds[2] ELSE playerIds[1],
                        !.turnNumber = s.turnNumber + 1,
                        !.phase = "start",
                        !.phaseActionsRemaining = DEFAULT_PHASE_ACTIONS["start"]]
        event == [kind |-> "turn", previousTurn |-> previousTurn,
                  newTurn |-> s1.turnNumber, activePlayerId |-> s1.activePlayerId]
    IN [st |-> s1, threw |-> FALSE, ret |-> event, delivered |-> <<>>]

\* mutation of endTurn: the active player is left as it was
endTurn_NoSwap(s, tl) ==
    LET s1 == [s EXCEPT !.turnNumber = s.turnNumber + 1,
                        !.phase = "start",
                        !.phaseActionsRemaining = DEFAULT_PHASE_ACTIONS["start"]]
        event == [kind |-> "turn", previousTurn |-> s.turnNumber,
                  newTurn |-> s1.turnNumber, activePlayerId |-> s1.activePlayerId]
    IN [st |-> s1, threw |-> FALSE, ret |-> event,
        delivered |-> during(notifyTurnListeners(tl, event), s1)]

\* mutation of endTurn: the flags left over from the ended turn are kept
endTurn_KeepActions(s, tl) ==
    LET s1 == [s EXCEPT !.activePlayerId =
                            IF s.activePlayerId = playerIds[1] THEN playerIds[2] ELSE playerIds[1],
                        !.turnNumber = s.turnNumber + 1,
                        !.phase = "start"]
        event == [kind |-> "turn", previousTurn |-> s.turnNumber,
                  newTurn |-> s1.turnNumber, activePlayerId |-> s1.activePlayerId]
    IN [st |-> s1, threw |-> FALSE, ret |-> event,
        delivered |-> during(notifyTurnListeners(tl, event), s1)]

endTurn(s, tl) ==
    LET previousTurn == s.turnNumber
        s1 == [s EXCEPT !.activePlayerId =
                            IF s.activePlayerId = playerIds[1] THEN playerIds[2] ELSE playerIds[1],
                        !.turnNumber = s.turnNumber + 1,
                        !.phase = "start",
                        !.phaseActionsRemaining = DEFAULT_PHASE_ACTIONS["start"]]
        event == [kind |-> "turn", previousTurn |-> previousTurn,
                  newTurn |-> s1.turnNumber, activePlayerId |-> s1.activePlayerId]
    IN [st |-> s1, threw |-> FALSE, ret |-> event,
        delivered |-> during(notifyTurnListeners(tl, event), s1)]

\* mutation of nextPhase: 'end' wraps to 'start' as a plain phase reset
nextPhase_PlainReset(s, cfg, tl, pl) ==
    LET previousPhase == s.phase
        newPhase == getNextPhase(previousPhase)
        s1 == [s EXCEPT !.phase = newPhase,
                        !.phaseActionsRemaining = DEFAULT_PHASE_ACTIONS[newPhase]]
        s2 == IF newPhase = "draw" /\ s1.turnNumber = 1 /\ cfg.skipFirstDraw
              THEN [s1 EXCEPT !.phaseActionsRemaining.canDraw = FALSE]
              ELSE s1
        event == [kind |-> "phase", previousPhase |-> previousPhase,
                  newPhase |-> newPhase, turnNumber |-> s2.turnNumber]
    IN [st |-> s2, threw |-> FALSE, ret |-> event,
        delivered |-> during(notifyPhaseListeners(pl, event), s2)]

\* mutation of nextPhase: the first-turn draw skip ignores the configuration
nextPhase_AlwaysSkip(s, cfg, tl, pl) ==
    LET previousPhase == s.phase
        newPhase == getNextPhase(previousPhase)
    IN IF previousPhase = "end" /\ newPhase = "start"
       THEN LET r == endTurn(s, tl) IN
            [st |-> r.st, threw |-> FALSE,
             ret |-> [kind |-> "phase", previousPhase |-> previousPhase,
                      newPhase |-> r.st.phase, turnNumber |-> r.st.turnNumber],
             delivered |-> r.delivered]
       ELSE LET s1 == [s EXCEPT !.phase = newPhase,
                                !.phaseActionsRemaining = DEFAULT_PHASE_ACTIONS[newPhase]]
                s2 == IF newPhase = "draw" /\ s1.turnNumber = 1
                      THEN [s1 EXCEPT !.phaseActionsRemaining.canDraw = FALSE]
                      ELSE s1
                event == [kind |-> "phase", previousPhase |-> previousPhase,
                          newPhase |-> newPhase, turnNumber |-> s2.turnNumber]
            IN [st |-> s2, threw |-> FALSE, ret |-> event,
                delivered |-> during(notifyPhaseListeners(pl, event), s2)]

nextPhase(s, cfg, tl, pl) ==
    LET previousPhase == s.phase
        newPhase == getNextPhase(previousPhase)
    IN IF previousPhase = "end" /\ newPhase = "start"
       THEN LET r == endTurn(s, tl) IN
            [st |-> r.st, threw |-> FALSE,
             ret |-> [kind |-> "phase", previousPhase |-> previousPhase,
                      newPhase |-> r.st.phase, turnNumber |-> r.st.turnNumber],
             delivered |-> r.delivered]
       ELSE LET s1 == [s EXCEPT !.phase = newPhase,
                                !.phaseActionsRemaining = DEFAULT_PHASE_ACTIONS[newPhase]]
                s2 == IF newPhase = "draw" /\ s1.turnNumber = 1 /\ cfg.skipFirstDraw
                      THEN [s1 EXCEPT !.phaseActionsRemaining.canDraw = FALSE]
                      ELSE s1
                event == [kind |-> "phase", previousPhase |-> previousPhase,
                          newPhase |-> newPhase, turnNumber |-> s2.turnNumber]
            IN [st |-> s2, threw |-> FALSE, ret |-> event,
                delivered |-> during(notifyPhaseListeners(pl, event), s2)]

\* mutation of setPhase: the phase is stored before it is validated
setPhase_StoreFirst(s, phase, pl) ==
    IF ~includes(TURN_PHASES, phase)
    THEN [st |-> [s EXCEPT !.phase = phase], threw |-> TRUE, ret |-> Void, delivered |-> <<>>]
    ELSE LET s1 == [s EXCEPT !.phase = phase,
                             !.phaseActionsRemaining = DEFAULT_PHASE_ACTIONS[phase]]
             event == [kind |-> "phase", previousPhase |-> s.phase,
                       newPhase |-> phase, turnNumber |-> s1.turnNumber]
         IN [st |-> s1, threw |-> FALSE, ret |-> Void,
             delivered |-> during(notifyPhaseListeners(pl, event), s1)]

\* mutation of setPhase: the actions left over from the previous phase are kept
setPhase_KeepActions(s, phase, pl) ==
    IF ~includes(TURN_PHASES, phase)
    THEN [st |-> s, threw |-> TRUE, ret |-> Void, delivered |-> <<>>]
    ELSE LET s1 == [s EXCEPT !.phase = phase]
             event == [kind |-> "phase", previousPhase |-> s.phase,
                       newPhase |-> phase, turnNumber |-> s1.turnNumber]
         IN [st |-> s1, threw |-> FALSE, ret |-> Void,
             delivered |-> during(notifyPhaseListeners(pl, event), s1)]

setPhase(s, phase, pl) ==
    IF ~includes(TURN_PHASES, phase)
    THEN [st |-> s, threw |-> TRUE, ret |-> Void, delivered |-> <<>>]
    ELSE LET previousPhase == s.phase
             s1 == [s EXCEPT !.phase = phase,
                             !.phaseActionsRemaining = DEFAULT_PHASE_ACTIONS[phase]]
             event == [kind |-> "phase", previousPhase |-> previousPhase,
                       newPhase |-> phase, turnNumber |-> s1.turnNumber]
         IN [st |-> s1, threw |-> FALSE, ret |-> Void,
             delivered |-> during(notifyPhaseListeners(pl, event), s1)]

\* mutation of useAction: the availability test is missing
useAction_NoCheck(s, action) ==
    [st |-> [s EXCEPT !.phaseActionsRemaining[action] = FALSE],
     threw |-> FALSE, ret |-> Void, delivered |-> <<>>]

\* mutation of useAction: the flag is flipped instead of cleared
useAction_Toggle(s, action) ==
    [st |-> [s EXCEPT !.phaseActionsRemaining[action] = ~s.phaseActionsRemaining[action]],
     threw |-> FALSE, ret |-> Void, delivered |-> <<>>]

useAction(s, action) ==
    IF ~s.phaseActionsRemaining[action]
    THEN [st |-> s, threw |-> TRUE, ret |-> Void, delivered |-> <<>>]
    ELSE [st |-> [s EXCEPT !.phaseActionsRemaining[action] = FALSE],
          threw |-> FALSE, ret |-> Void, delivered |-> <<>>]

serialize(s) == getState(s)

getAllPhases == TURN_PHASES

restore(s, saved) ==
    [turnNumber |-> saved.turnNumber, phase |-> saved.phase,
     activePlayerId |-> saved.activePlayerId,
     phaseActionsRemaining |-> saved.phaseActionsRemaining]

----------------------------------------------------------------------------
(* LifeManager (src/unnamed/part_004, lines 1-241)                          *)
(* lifeTotals is a Map: a sequence of entries [key, value] in insertion       *)
(* order, at most one entry per key.  An optional number is <<>> when absent *)
(* (undefined, null) and <<n>> when given; an absent source is NoSource.    *)

Null == <<>>

NoSource == "undefined"

LIFE_DEFAULT_CONFIG == [startingLife |-> 20, minLife |-> 0, maxLife |-> Null]

NotFound == [kind |-> "error", error |-> "not-found"]

InvalidArgument == [kind |-> "error", error |-> "invalid-argument"]

mathMax(a, b) == IF a >= b THEN a ELSE b

mathMin(a, b) == IF a <= b THEN a ELSE b

mapHas(m, k) == \E i \in 1..Len(m) : m[i].key = k

\* Map.get of a key the map has
mapGet(m, k) == m[CHOOSE i \in 1..Len(m) : m[i].key = k].value

\* Map.set: an existing key keeps its position, a new key goes last
mapSet(m, k, v) ==
    IF mapHas(m, k)
    THEN [i \in 1..Len(m) |-> IF m[i].key = k THEN [key |-> k, value |-> v] ELSE m[i]]
    ELSE Append(m, [key |-> k, value |-> v])

mapKeys(m) == [i \in 1..Len(m) |-> m[i].key]

\* a method of the life manager that throws: nothing was written, nothing delivered
lifeThrow(m, error) == [map |-> m, threw |-> TRUE, ret |-> error, delivered |-> <<>>]

lifeReturn(m, ret) == [map |-> m, threw |-> FALSE, ret |-> ret, delivered |-> <<>>]

clampLife(cfg, life) ==
    LET clamped == mathMax(life, cfg.minLife)
    IN  IF cfg.maxLife # Null THEN mathMin(clamped, cfg.maxLife[1]) ELSE clamped

\* mutation of notifyListeners: a callback that throws ends the loop
notifyListeners_StopAtThrow(listeners, event) ==
    LET all == [i \in 1..Len(listeners) |->
                   [listener |-> listeners[i], event |-> event,
                    caught |-> listeners[i] \in ThrowingListeners]]
        stop == IF \E i \in 1..Len(all) : all[i].caught
                THEN CHOOSE i \in 1..Len(all) : all[i].caught /\ \A j \in 1..(i - 1) : ~all[j].caught
                ELSE Len(all)
    IN  SubSeq(all, 1, stop)

\* every registered callback is called in insertion order; what it throws is caught
notifyListeners(listeners, event) ==
    [i \in 1..Len(listeners) |->
        [listener |-> listeners[i], event |-> event,
         caught |-> listeners[i] \in ThrowingListeners]]

initializePlayer(m, cfg, playerId, startingLife) ==
    LET life == IF startingLife # Null THEN startingLife[1] ELSE cfg.startingLife
    IN  lifeReturn(mapSet(m, playerId, life), Void)

\* mutation of getLife: a player that was never initialized has life 0
getLife_ZeroIfMissing(m, playerId) ==
    IF ~mapHas(m, playerId) THEN lifeReturn(m, 0)
    ELSE lifeReturn(m, mapGet(m, playerId))

getLife(m, playerId) ==
    IF ~mapHas(m, playerId) THEN lifeThrow(m, NotFound)
    ELSE lifeReturn(m, mapGet(m, playerId))

hasPlayer(m, playerId) == mapHas(m, playerId)

\* mutation of setLife: the listeners are told before the total is stored
setLife_NotifyFirst(m, cfg, listeners, playerId, life, source) ==
    LET got == getLife(m, playerId)
    IN  IF got.threw THEN got
        ELSE LET previousLife == got.ret
                 clampedLife == clampLife(cfg, life)
                 event == [playerId |-> playerId, previousLife |-> previousLife,
                           newLife |-> clampedLife,
                           change |-> clampedLife - previousLife, source |-> source]
             IN  [map |-> mapSet(m, playerId, clampedLife), threw |-> FALSE,
                  ret |-> event,
                  delivered |-> during(notifyListeners(listeners, event), m)]

\* mutation of setLife: no event is emitted when the life total does not change
setLife_SkipUnchanged(m, cfg, listeners, playerId, life, source) ==
    LET got == getLife(m, playerId)
    IN  IF got.threw THEN got
        ELSE LET previousLife == got.ret
                 clampedLife == clampLife(cfg, life)
                 event == [playerId |-> playerId, previousLife |-> previousLife,
                           newLife |-> clampedLife,
                           change |-> clampedLife - previousLife, source |-> source]
             IN  [map |-> mapSet(m, playerId, clampedLife), threw |-> FALSE,
                  ret |-> event,
                  delivered |-> IF clampedLife = previousLife THEN <<>>
                                ELSE during(notifyListeners(listeners, event),
                                            mapSet(m, playerId, clampedLife))]

setLife(m, cfg, listeners, playerId, life, source) ==
    LET got == getLife(m, playerId)
    IN  IF got.threw THEN got
        ELSE LET previousLife == got.ret
                 clampedLife == clampLife(cfg, life)
                 event == [playerId |-> playerId, previousLife |-> previousLife,
                           newLife |-> clampedLife,
                           change |-> clampedLife - previousLife, source |-> source]
                 written == mapSet(m, playerId, clampedLife)
             IN  [map |-> written, threw |-> FALSE,
                  ret |-> event,
                  delivered |-> during(notifyListeners(listeners, event), written)]

changeLife(m, cfg, listeners, playerId, amount, source) ==
    LET got == getLife(m, playerId)
    IN  IF got.threw THEN got
        ELSE setLife(m, cfg, listeners, playerId, got.ret + amount, source)

\* mutation of dealDamage: the amount is added
dealDamage_Adds(m, cfg, listeners, playerId, amount, source) ==
    IF amount < 0 THEN lifeThrow(m, InvalidArgument)
    ELSE changeLife(m, cfg, listeners, playerId, amount, source)

dealDamage(m, cfg, listeners, playerId, amount, source) ==
    IF amount < 0 THEN lifeThrow(m, InvalidArgument)
    ELSE changeLife(m, cfg, listeners, playerId, -amount, source)

\* mutation of heal: the sign of the amount is not tested
heal_NoCheck(m, cfg, listeners, playerId, amount, source) ==
    changeLife(m, cfg, listeners, playerId, amount, source)

heal(m, cfg, listeners, playerId, amount, source) ==
    IF amount < 0 THEN lifeThrow(m, InvalidArgument)
    ELSE changeLife(m, cfg, listeners, playerId, amount, source)

\* mutation of isAlive: the life is compared with 0, not with minLife
isAlive_AboveZero(m, cfg, playerId) ==
    LET got == getLife(m, playerId)
    IN  IF got.threw THEN got ELSE lifeReturn(m, got.ret > 0)

isAlive(m, cfg, playerId) ==
    LET got == getLife(m, playerId)
    IN  IF got.threw THEN got ELSE lifeReturn(m, got.ret > cfg.minLife)

isDead(m, cfg, playerId) ==
    LET alive == isAlive(m, cfg, playerId)
    IN  IF alive.threw THEN alive ELSE lifeReturn(m, ~alive.ret)

resetLife(m, cfg, listeners, playerId) ==
    LET r == setLife(m, cfg, listeners, playerId, cfg.startingLife, "reset")
    IN  IF r.threw THEN r ELSE [r EXCEPT !.ret = Void]

\* the loop of resetAllLife from the i-th key on (resetLife adds and removes no key)
RECURSIVE resetAllLifeFrom(_, _, _, _)
resetAllLifeFrom(m, cfg, listeners, i) ==
    IF i > Len(m) THEN lifeReturn(m, Void)
    ELSE LET r == resetLife(m, cfg, listeners, mapKeys(m)[i])
             rest == resetAllLifeFrom(r.map, cfg, listeners, i + 1)
         IN  [rest EXCEPT !.delivered = r.delivered \o rest.delivered]

resetAllLife(m, cfg, listeners) == resetAllLifeFrom(m, cfg, listeners, 1)

getPlayerIds(m) == mapKeys(m)

getAllLifeTotals(m) == m

addListener(listeners, callback) == setAdd(listeners, callback)

removeListener(listeners, callback) == setDelete(listeners, callback)

getStartingLife(cfg) == cfg.startingLife

----------------------------------------------------------------------------
(* Token definitions (src/unnamed/part_001, lines 170-245) and TokenManager *)
(* (src/unnamed/part_004, lines 243-464).  tokens is a Map from card id to  *)
(* a TokenState object; an object is a function from its own keys.          *)

TOKEN_DEFINITIONS ==
    [id \in {"damage-counter", "boost-counter", "shield-counter",
             "status-stun", "status-freeze"} |->
        [id |-> id, stackable |-> id \notin {"status-stun", "status-freeze"}, value |-> 1]]

\* the property names every object literal inherits from Object.prototype
InheritedKeys ==
    {"__defineGetter__", "__defineSetter__", "__lookupGetter__", "__lookupSetter__",
     "__proto__", "constructor", "hasOwnProperty", "isPrototypeOf",
     "propertyIsEnumerable", "toLocaleString", "toString", "valueOf"}

\* id in TOKEN_DEFINITIONS: the in operator also finds inherited properties
isValidTokenId(id) == id \in DOMAIN TOKEN_DEFINITIONS \/ id \in InheritedKeys

TOKEN_DEFAULT_CONFIG == [stackLimit |-> 99]

\* the number a computation on a non-number yields
NaN == "NaN"

\* what reading an inherited property name off an object yields: a function
InheritedValue == "function"

\* what reading __proto__ off an object literal yields: Object.prototype
ObjectPrototype == "object"

\* what + yields when an operand is a function or an object: a string that is
\* not the text of a number
Concatenated == "string"

\* typeof v is number and v is not NaN
isNumber(v) ==
    ToString(v) \notin {ToString(NaN), ToString(InheritedValue), ToString(ObjectPrototype),
                        ToString(Concatenated)}

\* a + b: the sum of two numbers, NaN when one of two numbers is NaN, and the
\* concatenation of the two texts when an operand is a function, an object or a string
plus(a, b) ==
    IF isNumber(a) /\ isNumber(b) THEN a + b
    ELSE IF (isNumber(a) \/ a = NaN) /\ (isNumber(b) \/ b = NaN) THEN NaN
    ELSE Concatenated

\* a - b: both operands are converted to numbers, a function, an object or such a
\* string to NaN
minus(a, b) == IF isNumber(a) /\ isNumber(b) THEN a - b ELSE NaN

\* Math.min and Math.max when an argument may not be a number
totalMin(a, b) == IF isNumber(a) /\ isNumber(b) THEN mathMin(a, b) ELSE NaN

totalMax(a, b) == IF isNumber(a) /\ isNumber(b) THEN mathMax(a, b) ELSE NaN

EmptyTokenState == [x \in {} |-> 0]

objSet(o, k, v) == [x \in DOMAIN o \cup {k} |-> IF x = k THEN v ELSE o[x]]

objDelete(o, k) == [x \in DOMAIN o \ {k} |-> o[x]]

mapDelete(m, k) == SelectSeq(m, LAMBDA e : e.key # k)

\* object is <<o>> when the call assigned to or deleted from a property of the
\* TokenState object of its card, o being what that object holds afterwards, and
\* <<>> when the call wrote to no TokenState object
tokenThrow(t, error) == [map |-> t, threw |-> TRUE, ret |-> error, object |-> <<>>]

tokenReturn(t, ret) == [map |-> t, threw |-> FALSE, ret |-> ret, object |-> <<>>]

tokenWrote(t, ret, object) ==
    [map |-> t, threw |-> FALSE, ret |-> ret, object |-> <<object>>]

\* cardTokens[tokenId] ?? 0: the own property, else the inherited one, else 0
readCount(cardTokens, tokenId) ==
    IF tokenId \in DOMAIN cardTokens THEN cardTokens[tokenId]
    ELSE IF tokenId = "__proto__" THEN ObjectPrototype
    ELSE IF tokenId \in InheritedKeys THEN InheritedValue
    ELSE 0

\* cardTokens[tokenId] = v for a number v: under __proto__ the assignment goes to the
\* inherited setter, which ignores a value that is not an object
assign(cardTokens, tokenId, v) ==
    IF tokenId = "__proto__" THEN cardTokens ELSE objSet(cardTokens, tokenId, v)

\* definition.stackable ? stackLimit : 1, stackable of an inherited value being undefined
maxCountOf(cfg, tokenId) ==
    IF tokenId \notin InheritedKeys /\ TOKEN_DEFINITIONS[tokenId].stackable
    THEN cfg.stackLimit ELSE 1

\* count is <<>> when the argument is omitted (default 1).  For an inherited
\* property name cardTokens[tokenId] is a function or an object until a number is
\* stored under the name, and Math.min of such a sum is NaN.
addToken(t, cfg, cardId, tokenId, countArg) ==
    IF ~isValidTokenId(tokenId) THEN tokenThrow(t, InvalidArgument)
    ELSE LET count == IF countArg = Null THEN 1 ELSE countArg[1]
             withCard == IF ~mapHas(t, cardId) THEN mapSet(t, cardId, EmptyTokenState) ELSE t
             cardTokens == mapGet(withCard, cardId)
             currentCount == readCount(cardTokens, tokenId)
             maxCount == maxCountOf(cfg, tokenId)
             newCount == IF tokenId \in InheritedKeys
                         THEN totalMin(plus(currentCount, count), maxCount)
                         ELSE mathMin(currentCount + count, maxCount)
             object == assign(cardTokens, tokenId, newCount)
         IN  tokenWrote(mapSet(withCard, cardId, object), newCount, object)

\* removeToken storing a count of 0 instead of deleting the kind entry
removeToken_KeepZero(t, cardId, tokenId, countArg) ==
    IF ~isValidTokenId(tokenId) THEN tokenThrow(t, InvalidArgument)
    ELSE IF ~mapHas(t, cardId) THEN tokenReturn(t, 0)
    ELSE LET count == IF countArg = Null THEN 1 ELSE countArg[1]
             cardTokens == mapGet(t, cardId)
             currentCount == IF tokenId \in DOMAIN cardTokens THEN cardTokens[tokenId] ELSE 0
             newCount == mathMax(currentCount - count, 0)
             after == objSet(cardTokens, tokenId, newCount)
         IN  tokenWrote(mapSet(t, cardId, after), newCount, after)

\* for an inherited property name Math.max of the difference is NaN, which is not
\* 0, until a number is stored under the name
removeToken(t, cardId, tokenId, countArg) ==
    IF ~isValidTokenId(tokenId) THEN tokenThrow(t, InvalidArgument)
    ELSE IF ~mapHas(t, cardId) THEN tokenReturn(t, 0)
    ELSE LET count == IF countArg = Null THEN 1 ELSE countArg[1]
             cardTokens == mapGet(t, cardId)
             currentCount == readCount(cardTokens, tokenId)
             newCount == IF tokenId \in InheritedKeys
                         THEN totalMax(minus(currentCount, count), 0)
                         ELSE mathMax(currentCount - count, 0)
             after == IF (tokenId \notin InheritedKeys \/ isNumber(newCount)) /\ newCount = 0
                      THEN objDelete(cardTokens, tokenId)
                      ELSE assign(cardTokens, tokenId, newCount)
         IN  tokenWrote(IF DOMAIN after = {} THEN mapDelete(t, cardId)
                        ELSE mapSet(t, cardId, after),
                        newCount, after)

getTokenCount(t, cardId, tokenId) ==
    IF ~mapHas(t, cardId) THEN 0
    ELSE readCount(mapGet(t, cardId), tokenId)

\* a clamped count of 0 goes through removeToken with the count the card holds
setTokenCount(t, cfg, cardId, tokenId, count) ==
    IF ~isValidTokenId(tokenId) THEN tokenThrow(t, InvalidArgument)
    ELSE LET maxCount == maxCountOf(cfg, tokenId)
             clampedCount == mathMin(mathMax(count, 0), maxCount)
         IN  IF clampedCount = 0
             THEN [removeToken(t, cardId, tokenId, <<getTokenCount(t, cardId, tokenId)>>)
                       EXCEPT !.ret = Void]
             ELSE LET withCard == IF ~mapHas(t, cardId)
                                  THEN mapSet(t, cardId, EmptyTokenState) ELSE t
                      object == assign(mapGet(withCard, cardId), tokenId, clampedCount)
                  IN  tokenWrote(mapSet(withCard, cardId, object), Void, object)

\* a new object with the own properties of the card's TokenState
getTokensOnCard(t, cardId) == IF mapHas(t, cardId) THEN mapGet(t, cardId) ELSE EmptyTokenState

hasTokens(t, cardId) == mapHas(t, cardId) /\ DOMAIN mapGet(t, cardId) # {}

\* a function, an object or NaN compared with > 0 is false
hasToken(t, cardId, tokenId) ==
    LET count == getTokenCount(t, cardId, tokenId)
    IN  (tokenId \notin InheritedKeys \/ isNumber(count)) /\ count > 0

\* clearTokens emptying the whole mapping
clearTokens_All(t, cardId) == tokenReturn(<<>>, Void)

clearTokens(t, cardId) == tokenReturn(mapDelete(t, cardId), Void)

clearAllTokens(t) == tokenReturn(<<>>, Void)

getCardsWithTokens(t) == mapKeys(t)

RECURSIVE sumValues(_)
\* the sum of Object.values(o)
sumValues(o) ==
    IF DOMAIN o = {} THEN 0
    ELSE LET k == CHOOSE x \in DOMAIN o : TRUE
         IN  plus(o[k], sumValues(objDelete(o, k)))

\* new Map(m) of a Map m of TokenState objects copies the entries, not the objects:
\* the cards whose TokenState object the copy holds in common with m
sharedByCopy(m) == {m[i].key : i \in 1..Len(m)}

tokenSerialize(t) == t

tokenRestore(t, saved) == tokenReturn(saved, Void)

RECURSIVE getTotalTokenCountFrom(_, _)
getTotalTokenCountFrom(t, i) ==
    IF i > Len(t) THEN 0
    ELSE plus(sumValues(t[i].value), getTotalTokenCountFrom(t, i + 1))

getTotalTokenCount(t) == getTotalTokenCountFrom(t, 1)

----------------------------------------------------------------------------
(* The state machine *)

\* a player id that is neither of the two ids this manager was constructed with
foreignPlayerId == "player-3"

\* the shape of the fields (interfaces TurnState, PhaseActions, TurnManagerConfig)
TypeOK ==
    /\ state.turnNumber \in Nat \ {0}
    /\ state.phase \in PhaseSet
    /\ state.activePlayerId \in {player1Id, player2Id, foreignPlayerId}
    /\ state.phaseActionsRemaining \in [ActionNames -> BOOLEAN]
    /\ config \in [skipFirstDraw : BOOLEAN]
    /\ \A i \in 1..Len(turnListeners) : turnListeners[i] \in Listeners
    /\ \A i \in 1..Len(phaseListeners) : phaseListeners[i] \in Listeners

TURN_DEFAULT_CONFIG == [skipFirstDraw |-> TRUE]

\* new TurnManager(player1Id, player2Id, config) with config one of configs
TurnInit(configs) ==
    /\ state = newState
    /\ config \in configs
    /\ turnListeners = <<>>
    /\ phaseListeners = <<>>

\* new LifeManager(config) with config one of configs
LifeInit(configs) ==
    /\ lifeTotals = <<>>
    /\ lifeConfig \in configs
    /\ lifeListeners = <<>>

\* new TokenManager(config) with config one of configs
TokenInit(configs) ==
    /\ tokens = <<>>
    /\ tokenConfig \in configs

\* the caller has made no call yet
CallerInit ==
    /\ snapshot = NoSnapshot
    /\ other = NoManager
    /\ call = [op |-> "constructor", arg |-> "", threw |-> FALSE, ret |-> Void]
    /\ delivered = <<>>

\* the turn manager under either setting of skipFirstDraw, next to a life
\* manager and a token manager that are constructed and never called
Init ==
    /\ TurnInit([skipFirstDraw : BOOLEAN])
    /\ LifeInit({LIFE_DEFAULT_CONFIG})
    /\ TokenInit({TOKEN_DEFAULT_CONFIG})
    /\ CallerInit

\* A callback that keeps what it is handed: the caller's log holds, per channel
\* (the kind of a turn manager's event, the player of a life event), the event
\* the callback received last, and per player the life the caller first
\* initialized it with.
LoggingListener == "cb1"

EmptyLog == [kind |-> "log", value |-> [last |-> <<>>, first |-> <<>>], shared |-> {}]

\* the log after the deliveries d from the i-th on, made by a turn manager; the
\* channel 'last' holds the last event of either kind
RECURSIVE LoggedTurnFrom(_, _, _)
LoggedTurnFrom(last, d, i) ==
    IF i > Len(d) THEN last
    ELSE IF d[i].listener # LoggingListener THEN LoggedTurnFrom(last, d, i + 1)
    ELSE LoggedTurnFrom(mapSet(mapSet(last, d[i].event.kind, d[i].event), "last", d[i].event),
                        d, i + 1)

\* the same of the deliveries made by a life manager, of whose events the
\* callback keeps the newLife
RECURSIVE LoggedLifeFrom(_, _, _)
LoggedLifeFrom(last, d, i) ==
    IF i > Len(d) THEN last
    ELSE IF d[i].listener # LoggingListener THEN LoggedLifeFrom(last, d, i + 1)
    ELSE LoggedLifeFrom(mapSet(last, d[i].event.playerId, d[i].event.newLife), d, i + 1)

\* what the caller holds after a call of the turn manager
HeldAfterTurnCall(held, d) ==
    IF held.kind = "log"
    THEN [held EXCEPT !.value.last = LoggedTurnFrom(held.value.last, d, 1)]
    ELSE held

\* a method that changes the turn state: r is what the method's operator computed
Apply(op, arg, r) ==
    /\ state' = r.st
    /\ call' = [op |-> op, arg |-> arg, threw |-> r.threw, ret |-> r.ret]
    /\ delivered' = r.delivered
    /\ snapshot' = HeldAfterTurnCall(snapshot, r.delivered)
    /\ UNCHANGED <<config, turnListeners, phaseListeners, other, lifeVars, tokenVars>>

NextPhaseCall ==
    /\ state.phase = "end" => state.turnNumber < MaxTurn
    /\ Apply("nextPhase", "", nextPhase(state, config, turnListeners, phaseListeners))

SetPhaseCall ==
    \E phase \in PhaseArgs : Apply("setPhase", phase, setPhase(state, phase, phaseListeners))

EndTurnCall ==
    /\ state.turnNumber < MaxTurn
    /\ Apply("endTurn", "", endTurn(state, turnListeners))

UseActionCall ==
    \E action \in ActionNames : Apply("useAction", action, useAction(state, action))

\* a method of the turn manager that leaves the turn state alone (its argument
\* is not recorded)
Observe(op, ret) ==
    /\ call' = [op |-> op, arg |-> "", threw |-> FALSE, ret |-> ret]
    /\ delivered' = <<>>
    /\ UNCHANGED <<lifeVars, tokenVars, other>>

QueryCall ==
    /\ \/ Observe("getPhaseActions", [kind |-> "actions", value |-> getPhaseActions(state)])
       \/ Observe("getState", [kind |-> "state", value |-> getState(state)])
    /\ UNCHANGED <<state, config, turnListeners, phaseListeners, snapshot>>

\* a listener method given callback: it leaves the turn state alone
Register(op, callback) ==
    /\ call' = [op |-> op, arg |-> callback, threw |-> FALSE, ret |-> Void]
    /\ delivered' = <<>>
    /\ UNCHANGED <<lifeVars, tokenVars, other>>

AddTurnListenerCall(pool) ==
    \E cb \in pool :
        /\ turnListeners' = setAdd(turnListeners, cb)
        /\ Register("addTurnListener", cb)
        /\ UNCHANGED <<state, config, phaseListeners, snapshot>>

RemoveTurnListenerCall(pool) ==
    \E cb \in pool :
        /\ turnListeners' = setDelete(turnListeners, cb)
        /\ Register("removeTurnListener", cb)
        /\ UNCHANGED <<state, config, phaseListeners, snapshot>>

AddPhaseListenerCall(pool) ==
    \E cb \in pool :
        /\ phaseListeners' = setAdd(phaseListeners, cb)
        /\ Register("addPhaseListener", cb)
        /\ UNCHANGED <<state, config, turnListeners, snapshot>>

RemovePhaseListenerCall(pool) ==
    \E cb \in pool :
        /\ phaseListeners' = setDelete(phaseListeners, cb)
        /\ Register("removePhaseListener", cb)
        /\ UNCHANGED <<state, config, turnListeners, snapshot>>

ClearListenersCall ==
    /\ turnListeners' = <<>>
    /\ phaseListeners' = <<>>
    /\ Observe("clearListeners", Void)
    /\ UNCHANGED <<state, config, snapshot>>

SerializeCall ==
    /\ snapshot' = [kind |-> "state", value |-> serialize(state)]
    /\ Observe("serialize", Void)
    /\ UNCHANGED <<state, config, turnListeners, phaseListeners>>

\* what new TurnManager(foreignPlayerId, 'player-4').serialize() returns
ForeignSnapshot == [newState EXCEPT !.activePlayerId = foreignPlayerId]

\* the TurnState this manager's serialize returned last, if any
OwnSnapshots == IF snapshot # NoSnapshot THEN {snapshot.value} ELSE {}

\* restore is given one of the TurnState values in saved
RestoreCall(saved) ==
    \E s \in saved :
        /\ state' = restore(state, s)
        /\ Observe("restore", Void)
        /\ UNCHANGED <<config, turnListeners, phaseListeners, snapshot>>

\* every public method of TurnManager; the caller registers one callback only
Next ==
    \/ NextPhaseCall
    \/ SetPhaseCall
    \/ EndTurnCall
    \/ UseActionCall
    \/ QueryCall
    \/ AddTurnListenerCall(SingleListener)
    \/ RemoveTurnListenerCall(SingleListener)
    \/ AddPhaseListenerCall(SingleListener)
    \/ RemovePhaseListenerCall(SingleListener)
    \/ ClearListenersCall
    \/ SerializeCall
    \/ RestoreCall(OwnSnapshots)

SpecAll == Init /\ [][Next]_vars

\* turns and phases advance, and restore is given either a state this manager
\* serialized or one serialized by a manager of two other players
NextRestore ==
    \/ NextPhaseCall
    \/ EndTurnCall
    \/ SerializeCall
    \/ RestoreCall(OwnSnapshots \cup {ForeignSnapshot})

SpecRestore == Init /\ [][NextRestore]_vars

\* every public method but serialize and restore; the caller registers any of the
\* callbacks, in any order
NextPlay ==
    \/ NextPhaseCall
    \/ SetPhaseCall
    \/ EndTurnCall
    \/ UseActionCall
    \/ QueryCall
    \/ AddTurnListenerCall(Listeners)
    \/ RemoveTurnListenerCall(Listeners)
    \/ AddPhaseListenerCall(Listeners)
    \/ RemovePhaseListenerCall(Listeners)
    \/ ClearListenersCall

Spec == Init /\ [][NextPlay]_vars

----------------------------------------------------------------------------
(* What the specification says of the turn manager, stated independently of *)
(* the code: the phase order and the per-phase table of section 4.1         *)

\* the successor of each phase but 'end' in the fixed order
SuccessorOf ==
    [p \in PhaseSet \ {"end"} |->
        CASE p = "start"    -> "untap"
          [] p = "untap"    -> "draw"
          [] p = "draw"     -> "resource"
          [] p = "resource" -> "main"
          [] p = "main"     -> "clash"
          [] p = "clash"    -> "main2"
          [] p = "main2"    -> "end"]

\* the flags that the per-phase table has true
PhaseTable ==
    [p \in PhaseSet |->
        CASE p = "draw"     -> {"canDraw"}
          [] p = "resource" -> {"canPlayResource"}
          [] p = "main"     -> {"canPlayCards", "canActivateAbilities"}
          [] p = "clash"    -> {"canAttack", "canActivateAbilities"}
          [] p = "main2"    -> {"canPlayCards", "canActivateAbilities"}
          [] OTHER          -> {}]

\* the flags of s that are true
TrueFlags(s) == {a \in ActionNames : s.phaseActionsRemaining[a]}

OtherPlayer(id) == IF id = player1Id THEN player2Id ELSE player1Id

PhaseChangeOps == {"nextPhase", "setPhase", "endTurn"}

\* the turn state after n consecutive nextPhase() calls from s
RECURSIVE NextPhaseTimes(_, _)
NextPhaseTimes(s, n) ==
    IF n = 0 THEN s
    ELSE nextPhase(NextPhaseTimes(s, n - 1), config, turnListeners, phaseListeners).st

\* what each registered listener is handed, in registration order
Handed(listeners, event) ==
    [i \in 1..Len(listeners) |-> [listener |-> listeners[i], event |-> event]]

\* the deliveries without the note of whether the callback threw
Received(d) == [i \in 1..Len(d) |-> [listener |-> d[i].listener, event |-> d[i].event]]

----------------------------------------------------------------------------
(* Claims *)

\* C1: from every reachable state whose phase is 'start', eight consecutive
\* nextPhase() calls end in phase 'start' with turnNumber one higher and the other
\* player active; after each of the first seven calls turnNumber and
\* activePlayerId are what they were.
C1_PhaseCycle ==
    state.phase = "start" =>
        /\ \A i \in 1..7 :
            /\ NextPhaseTimes(state, i).turnNumber = state.turnNumber
            /\ NextPhaseTimes(state, i).activePlayerId = state.activePlayerId
        /\ NextPhaseTimes(state, 8).phase = "start"
        /\ NextPhaseTimes(state, 8).turnNumber = state.turnNumber + 1
        /\ NextPhaseTimes(state, 8).activePlayerId = OtherPlayer(state.activePlayerId)

\* the eighth nextPhase() of the first turn has been made
C1_Witness ==
    /\ call.op = "nextPhase"
    /\ call.ret.previousPhase = "end"
    /\ state.phase = "start"
    /\ state.turnNumber = 2
    /\ state.activePlayerId = player2Id

\* C2: a nextPhase() step taken in a phase p other than 'end' sets the phase to the
\* immediate successor of p in the fixed order, leaves turnNumber and
\* activePlayerId unchanged and returns {previousPhase: p, newPhase: successor,
\* turnNumber: the current turn}.
C2_NextPhaseSuccessor ==
    [][(call'.op = "nextPhase" /\ state.phase # "end") =>
          /\ state'.phase = SuccessorOf[state.phase]
          /\ state'.turnNumber = state.turnNumber
          /\ state'.activePlayerId = state.activePlayerId
          /\ ~call'.threw
          /\ call'.ret = [kind |-> "phase", previousPhase |-> state.phase,
                          newPhase |-> SuccessorOf[state.phase],
                          turnNumber |-> state.turnNumber]]_vars

\* nextPhase() has just moved main to clash
C2_Witness ==
    /\ call.op = "nextPhase"
    /\ call.ret.previousPhase = "main"
    /\ call.ret.newPhase = "clash"
    /\ state.phase = "clash"

\* C3: right after nextPhase() has entered 'draw', canDraw is false if turnNumber is
\* 1 and skipFirstDraw is enabled and true in every other case, and the other four
\* flags are false.
C3_SkipFirstDraw ==
    (call.op = "nextPhase" /\ state.phase = "draw") =>
        TrueFlags(state) =
            IF state.turnNumber = 1 /\ config.skipFirstDraw THEN {} ELSE {"canDraw"}

\* nextPhase() has entered 'draw' on turn 1 with skipFirstDraw enabled
C3_Witness ==
    /\ call.op = "nextPhase"
    /\ state.phase = "draw"
    /\ state.turnNumber = 1
    /\ config.skipFirstDraw
    /\ ~state.phaseActionsRemaining.canDraw

\* C4: right after a successful setPhase('draw'), canDraw is false if turnNumber is 1
\* and skipFirstDraw is enabled, and true otherwise (getPhaseActions().canDraw and
\* canPerformAction('canDraw') agree with it).
C4_SetPhaseDrawSkipsFirstDraw ==
    (call.op = "setPhase" /\ ~call.threw /\ call.arg = "draw") =>
        /\ getPhaseActions(state).canDraw = ~(state.turnNumber = 1 /\ config.skipFirstDraw)
        /\ canPerformAction(state, "canDraw") = ~(state.turnNumber = 1 /\ config.skipFirstDraw)

\* C5: setPhase(p), for each of the eight phases p and from every reachable state,
\* does not throw, sets the phase to p and the flags to exactly the row of p in the
\* per-phase table (no first-turn draw suppression), leaves turnNumber and
\* activePlayerId unchanged and hands every registered phase listener, once and in
\* order, the event {previousPhase, newPhase: p, turnNumber}.
C5_SetPhase ==
    \A p \in PhaseSet :
        LET r == setPhase(state, p, phaseListeners) IN
        /\ ~r.threw
        /\ r.st.phase = p
        /\ TrueFlags(r.st) = PhaseTable[p]
        /\ r.st.turnNumber = state.turnNumber
        /\ r.st.activePlayerId = state.activePlayerId
        /\ Received(r.delivered) =
              Handed(phaseListeners,
                     [kind |-> "phase", previousPhase |-> state.phase,
                      newPhase |-> p, turnNumber |-> state.turnNumber])

\* setPhase('draw') has been called on turn 1 with skipFirstDraw enabled and two
\* phase listeners registered: canDraw is true and both were notified
C5_Witness ==
    /\ call.op = "setPhase"
    /\ call.arg = "draw"
    /\ state.phase = "draw"
    /\ state.turnNumber = 1
    /\ config.skipFirstDraw
    /\ state.phaseActionsRemaining.canDraw
    /\ Len(delivered) = 2

\* C6: endTurn(), from every reachable state (so in every phase), adds exactly 1 to
\* turnNumber, makes the other configured player active, sets the phase to 'start'
\* with all five flags false, hands every registered turn listener the turn-change
\* event once and returns {previousTurn, newTurn: previousTurn + 1, activePlayerId:
\* the new active player}; a second endTurn() makes the first player active again.
C6_EndTurn ==
    LET r == endTurn(state, turnListeners)
        event == [kind |-> "turn", previousTurn |-> state.turnNumber,
                  newTurn |-> state.turnNumber + 1,
                  activePlayerId |-> OtherPlayer(state.activePlayerId)]
    IN /\ ~r.threw
       /\ r.st.turnNumber = state.turnNumber + 1
       /\ r.st.activePlayerId = OtherPlayer(state.activePlayerId)
       /\ r.st.activePlayerId # state.activePlayerId
       /\ r.st.phase = "start"
       /\ TrueFlags(r.st) = {}
       /\ r.ret = event
       /\ Received(r.delivered) = Handed(turnListeners, event)
       /\ endTurn(r.st, turnListeners).st.activePlayerId = state.activePlayerId
       /\ endTurn(r.st, turnListeners).st.turnNumber = state.turnNumber + 2

\* endTurn() has been called on turn 1 with a turn listener registered
C6_Witness ==
    /\ call.op = "endTurn"
    /\ call.ret.previousTurn = 1
    /\ state.turnNumber = 2
    /\ state.activePlayerId = player2Id
    /\ state.phase = "start"
    /\ Len(delivered) >= 1

\* C7: in every state, useAction(a) on a flag that is false throws and leaves the
\* whole turn state unchanged; on a flag that is true it sets that flag to false and
\* changes nothing else, and a second useAction(a) right after it throws.  And a
\* useAction(a) that would throw before a step still throws after it, unless the
\* step is a nextPhase, setPhase, endTurn or restore.
C7_UseAction ==
    [][/\ \A a \in ActionNames :
            LET r == useAction(state, a) IN
            IF a \in TrueFlags(state)
            THEN /\ ~r.threw
                 /\ TrueFlags(r.st) = TrueFlags(state) \ {a}
                 /\ r.st.turnNumber = state.turnNumber
                 /\ r.st.phase = state.phase
                 /\ r.st.activePlayerId = state.activePlayerId
                 /\ useAction(r.st, a).threw
                 /\ useAction(r.st, a).st = r.st
            ELSE /\ r.threw
                 /\ r.st = state
       /\ call'.op \notin (PhaseChangeOps \cup {"restore"}) =>
            \A a \in ActionNames : useAction(state, a).threw => useAction(state', a).threw
      ]_vars

\* useAction('canPlayCards') has failed in the main phase, where canPlayCards was
\* used before and canActivateAbilities is still available
C7_Witness ==
    /\ call.op = "useAction"
    /\ call.arg = "canPlayCards"
    /\ call.threw
    /\ state.phase = "main"
    /\ TrueFlags(state) = {"canActivateAbilities"}

\* C8: a setPhase(x) step with x outside the eight phases throws, leaves the turn
\* state (phase, flags, turnNumber, activePlayerId) unchanged and invokes no
\* listener.
C8_SetPhaseInvalid ==
    [][(call'.op = "setPhase" /\ call'.arg \notin PhaseSet) =>
          /\ call'.threw
          /\ state' = state
          /\ delivered' = <<>>]_vars

\* setPhase('invalid') has failed in the main phase with a phase listener registered
C8_Witness ==
    /\ call.op = "setPhase"
    /\ call.arg = "invalid"
    /\ call.threw
    /\ state.phase = "main"
    /\ Len(phaseListeners) > 0

\* C9: in every state reached by nextPhase, setPhase, endTurn and useAction the
\* phase is one of the eight and a flag is true only if the per-phase table has it
\* true for the current phase.
C9_FlagsWithinPhaseRow ==
    /\ state.phase \in PhaseSet
    /\ TrueFlags(state) \subseteq PhaseTable[state.phase]

\* in the clash phase canAttack has been used and canActivateAbilities is left
C9_Witness ==
    /\ call.op = "useAction"
    /\ ~call.threw
    /\ state.phase = "clash"
    /\ TrueFlags(state) = {"canActivateAbilities"}

\* C10 as stated: no step of a method other than nextPhase, setPhase and endTurn
\* (useAction, the queries, the listener methods, serialize, restore) turns a flag
\* from false to true.
C10_OnlyPhaseChangeSetsFlags ==
    [][call'.op \notin PhaseChangeOps => TrueFlags(state') \subseteq TrueFlags(state)]_vars

\* C10 amended: no step of a method other than nextPhase, setPhase, endTurn and
\* restore turns a flag from false to true (restore installs the flags of the
\* snapshot it is given).
C10_OnlyPhaseChangeOrRestoreSetsFlags ==
    [][call'.op \notin (PhaseChangeOps \cup {"restore"}) =>
          TrueFlags(state') \subseteq TrueFlags(state)]_vars

\* useAction('canAttack') has turned canAttack from true to false while the caller
\* holds a snapshot
C10_Witness ==
    /\ call.op = "useAction"
    /\ call.arg = "canAttack"
    /\ ~call.threw
    /\ ~state.phaseActionsRemaining.canAttack
    /\ snapshot # NoSnapshot

----------------------------------------------------------------------------
\* C11: in every reachable state activePlayerId is one of the two player ids
\* given at construction, getInactivePlayerId() is the other one, and
\* isPlayerTurn(p) holds for exactly one of the two configured players.
\* restore installs the activePlayerId of whatever TurnState it is given, and
\* after restoring a state serialized by a manager of other players none holds.
C11_ActivePlayerIsConfigured ==
    /\ state.activePlayerId \in {player1Id, player2Id}
    /\ getInactivePlayerId(state) = OtherPlayer(state.activePlayerId)
    /\ Cardinality({p \in {player1Id, player2Id} : isPlayerTurn(state, p)}) = 1

----------------------------------------------------------------------------
(* The life manager as a state machine *)

\* life totals passed to initializePlayer and setLife range over -1..MaxLife,
\* and a call that would store more than MaxLife is not taken
MaxLife == 4

\* amounts passed to changeLife, dealDamage and heal are at most MaxAmount
MaxAmount == 2

LifeIds == {player1Id, player2Id}

LifeArgs == -1..MaxLife

Sources == {NoSource, "test"}

\* the defaults scaled down (no upper limit); a manager with both limits; and a
\* manager given an upper limit only, which lies below the default startingLife
\* (new LifeManager({ maxLife: 10 }) keeps startingLife 20)
LifeConfigs ==
    {[startingLife |-> 2, minLife |-> 0, maxLife |-> Null],
     [startingLife |-> 2, minLife |-> 1, maxLife |-> <<3>>],
     [startingLife |-> 4, minLife |-> 0, maxLife |-> <<3>>]}

InLifeBound(m) == \A i \in 1..Len(m) : m[i].value <= MaxLife

\* what the caller holds after a call of the life manager: the log notes the
\* life a player is initialized with the first time, and the events received
HeldAfterLifeCall(held, op, playerId, r) ==
    IF held.kind = "log"
    THEN [held EXCEPT
            !.value.last = LoggedLifeFrom(held.value.last, r.delivered, 1),
            !.value.first = IF op = "initializePlayer" /\ ~mapHas(held.value.first, playerId)
                            THEN mapSet(held.value.first, playerId, mapGet(r.map, playerId))
                            ELSE held.value.first]
    ELSE held

\* a method of the life manager: r is what the method's operator computed
LifeApply(op, playerId, r) ==
    /\ InLifeBound(r.map)
    /\ lifeTotals' = r.map
    /\ call' = [op |-> op, arg |-> playerId, threw |-> r.threw, ret |-> r.ret]
    /\ delivered' = r.delivered
    /\ snapshot' = HeldAfterLifeCall(snapshot, op, playerId, r)
    /\ UNCHANGED <<lifeConfig, lifeListeners, turnVars, tokenVars, other>>

InitializePlayerCall(lives) ==
    \E playerId \in LifeIds, startingLife \in lives :
        LifeApply("initializePlayer", playerId,
                  initializePlayer(lifeTotals, lifeConfig, playerId, startingLife))

\* setLife with the life and the source taken from the given pools
SetLifeWith(lives, sources) ==
    \E playerId \in LifeIds, life \in lives, source \in sources :
        LifeApply("setLife", playerId,
                  setLife(lifeTotals, lifeConfig, lifeListeners, playerId, life, source))

SetLifeCall == SetLifeWith(LifeArgs, Sources)

ChangeLifeWith(amounts) ==
    \E playerId \in LifeIds, amount \in amounts, source \in {NoSource} :
        LifeApply("changeLife", playerId,
                  changeLife(lifeTotals, lifeConfig, lifeListeners, playerId, amount, source))

ChangeLifeCall == ChangeLifeWith(-MaxAmount..MaxAmount)

DealDamageWith(amounts) ==
    \E playerId \in LifeIds, amount \in amounts, source \in {NoSource} :
        LifeApply("dealDamage", playerId,
                  dealDamage(lifeTotals, lifeConfig, lifeListeners, playerId, amount, source))

DealDamageCall == DealDamageWith(-1..MaxAmount)

HealWith(amounts) ==
    \E playerId \in LifeIds, amount \in amounts, source \in {NoSource} :
        LifeApply("heal", playerId,
                  heal(lifeTotals, lifeConfig, lifeListeners, playerId, amount, source))

HealCall == HealWith(-1..MaxAmount)

ResetLifeCall ==
    \E playerId \in LifeIds :
        LifeApply("resetLife", playerId,
                  resetLife(lifeTotals, lifeConfig, lifeListeners, playerId))

ResetAllLifeCall ==
    LifeApply("resetAllLife", "", resetAllLife(lifeTotals, lifeConfig, lifeListeners))

LifeQueryCall ==
    \E playerId \in LifeIds :
        \/ LifeApply("getLife", playerId, getLife(lifeTotals, playerId))
        \/ LifeApply("isAlive", playerId, isAlive(lifeTotals, lifeConfig, playerId))
        \/ LifeApply("isDead", playerId, isDead(lifeTotals, lifeConfig, playerId))
        \/ LifeApply("hasPlayer", playerId,
                     lifeReturn(lifeTotals, hasPlayer(lifeTotals, playerId)))

\* a listener method of the life manager
LifeListen(op, callback, listeners) ==
    /\ lifeListeners' = listeners
    /\ call' = [op |-> op, arg |-> callback, threw |-> FALSE, ret |-> Void]
    /\ delivered' = <<>>
    /\ UNCHANGED <<lifeTotals, lifeConfig, turnVars, tokenVars, snapshot, other>>

AddListenerCall(pool) ==
    \E cb \in pool : LifeListen("addListener", cb, addListener(lifeListeners, cb))

RemoveListenerCall(pool) ==
    \E cb \in pool : LifeListen("removeListener", cb, removeListener(lifeListeners, cb))

\* recorded under the manager's name, apart from TurnManager.clearListeners
LifeClearListenersCall == LifeListen("LifeManager.clearListeners", "", <<>>)

\* every method of LifeManager that reads or writes a life total, and its
\* listener methods; the caller registers one callback only
NextLife ==
    \/ InitializePlayerCall({Null} \cup {<<n>> : n \in LifeArgs})
    \/ SetLifeCall
    \/ ChangeLifeCall
    \/ DealDamageCall
    \/ HealCall
    \/ ResetLifeCall
    \/ ResetAllLifeCall
    \/ LifeQueryCall
    \/ AddListenerCall(SingleListener)
    \/ RemoveListenerCall(SingleListener)
    \/ LifeClearListenersCall

\* a life manager under each configuration, next to a turn manager and a token
\* manager that are constructed and never called
InitLife ==
    /\ TurnInit({TURN_DEFAULT_CONFIG})
    /\ LifeInit(LifeConfigs)
    /\ TokenInit({TOKEN_DEFAULT_CONFIG})
    /\ CallerInit

SpecLife == InitLife /\ [][NextLife]_vars

----------------------------------------------------------------------------
(* The listeners of the turn manager and of the life manager together.  The *)
(* managers share no state, so a caller that uses one of the two managers   *)
(* and leaves the other as constructed sees every delivery either can make. *)

TurnUntouched == state = newState /\ turnListeners = <<>> /\ phaseListeners = <<>>

LifeUntouched == lifeTotals = <<>> /\ lifeListeners = <<>>

\* the methods that emit an event, and the registration of listeners
NextNotify ==
    \/ LifeUntouched /\ NextPhaseCall
    \/ LifeUntouched /\ SetPhaseCall
    \/ LifeUntouched /\ EndTurnCall
    \/ LifeUntouched /\ AddTurnListenerCall(Listeners)
    \/ LifeUntouched /\ RemoveTurnListenerCall(Listeners)
    \/ LifeUntouched /\ AddPhaseListenerCall(Listeners)
    \/ LifeUntouched /\ RemovePhaseListenerCall(Listeners)
    \/ LifeUntouched /\ ClearListenersCall
    \/ TurnUntouched /\ InitializePlayerCall({Null} \cup {<<n>> : n \in LifeArgs})
    \/ TurnUntouched /\ SetLifeCall
    \/ TurnUntouched /\ DealDamageCall
    \/ TurnUntouched /\ ResetLifeCall
    \/ TurnUntouched /\ ResetAllLifeCall
    \/ TurnUntouched /\ AddListenerCall(Listeners)
    \/ TurnUntouched /\ RemoveListenerCall(Listeners)
    \/ TurnUntouched /\ LifeClearListenersCall

InitNotify ==
    /\ TurnInit({TURN_DEFAULT_CONFIG})
    /\ LifeInit(LifeConfigs)
    /\ TokenInit({TOKEN_DEFAULT_CONFIG})
    /\ CallerInit

SpecNotify == InitNotify /\ [][NextNotify]_vars

\* what the listeners are handed when the events are emitted one after another
HandedAll(listeners, events) ==
    [x \in 1..(Len(events) * Len(listeners)) |->
        [listener |-> listeners[((x - 1) % Len(listeners)) + 1],
         event |-> events[((x - 1) \div Len(listeners)) + 1]]]

NoDuplicates(listeners) ==
    \A i, j \in 1..Len(listeners) : listeners[i] = listeners[j] => i = j

\* the event of resetting playerId across the step
ResetEvent(playerId) ==
    [playerId |-> playerId, previousLife |-> mapGet(lifeTotals, playerId),
     newLife |-> mapGet(lifeTotals', playerId),
     change |-> mapGet(lifeTotals', playerId) - mapGet(lifeTotals, playerId),
     source |-> "reset"]

\* a step of the turn manager that emits: the registered listeners of the event's
\* kind are each handed the event once, in registration order, the method returns
\* and its state change stands
C12_TurnStep ==
    /\ call'.op = "endTurn" =>
        /\ ~call'.threw
        /\ state'.turnNumber = state.turnNumber + 1
        /\ call'.ret.newTurn = state'.turnNumber
        /\ Received(delivered') = Handed(turnListeners, call'.ret)
    /\ call'.op = "nextPhase" =>
        /\ ~call'.threw
        /\ state.phase = "end" =>
            /\ state'.turnNumber = state.turnNumber + 1
            /\ Received(delivered') =
                   Handed(turnListeners,
                          [kind |-> "turn", previousTurn |-> state.turnNumber,
                           newTurn |-> state'.turnNumber,
                           activePlayerId |-> state'.activePlayerId])
        /\ state.phase # "end" =>
            /\ state'.phase = call'.ret.newPhase /\ state'.phase # state.phase
            /\ Received(delivered') = Handed(phaseListeners, call'.ret)
    /\ call'.op = "setPhase" /\ ~call'.threw =>
        /\ state'.phase = call'.arg
        /\ Received(delivered') =
               Handed(phaseListeners,
                      [kind |-> "phase", previousPhase |-> state.phase,
                       newPhase |-> call'.arg, turnNumber |-> state.turnNumber])

\* the same of a step of the life manager
C12_LifeStep ==
    /\ call'.op \in {"setLife", "dealDamage"} /\ ~call'.threw =>
        /\ mapGet(lifeTotals', call'.arg) = call'.ret.newLife
        /\ Received(delivered') = Handed(lifeListeners, call'.ret)
    /\ call'.op = "resetLife" /\ ~call'.threw =>
        Received(delivered') = Handed(lifeListeners, ResetEvent(call'.arg))
    /\ call'.op = "resetAllLife" =>
        /\ ~call'.threw
        /\ Received(delivered') =
               HandedAll(lifeListeners,
                         [i \in 1..Len(lifeTotals) |-> ResetEvent(mapKeys(lifeTotals)[i])])

\* registration: a callback is registered once, a removed callback is handed
\* nothing by a later notification, and after clearListeners nobody is registered
C12_Registration ==
    /\ NoDuplicates(turnListeners) /\ NoDuplicates(phaseListeners)
    /\ NoDuplicates(lifeListeners)
    /\ \A cb \in Listeners :
        /\ \A i \in DOMAIN notifyTurnListeners(setDelete(turnListeners, cb), Void) :
               notifyTurnListeners(setDelete(turnListeners, cb), Void)[i].listener # cb
        /\ \A i \in DOMAIN notifyPhaseListeners(setDelete(phaseListeners, cb), Void) :
               notifyPhaseListeners(setDelete(phaseListeners, cb), Void)[i].listener # cb
        /\ \A i \in DOMAIN notifyListeners(removeListener(lifeListeners, cb), Void) :
               notifyListeners(removeListener(lifeListeners, cb), Void)[i].listener # cb
    /\ call'.op = "clearListeners" => turnListeners' = <<>> /\ phaseListeners' = <<>>
    /\ call'.op = "LifeManager.clearListeners" => lifeListeners' = <<>>
    /\ call'.op \in {"removeTurnListener", "removePhaseListener", "removeListener",
                     "clearListeners", "LifeManager.clearListeners"} => delivered' = <<>>

\* C12: every emitted event (turn, phase, life change) is delivered during the
\* call that emits it to exactly the listeners registered at that moment, each once
\* and in registration order; a listener that was removed or cleared receives no
\* later event; a listener that throws stops neither the delivery to the later
\* listeners nor the method, which returns normally with its state change made.
C12_ListenerDelivery ==
    [][C12_TurnStep /\ C12_LifeStep /\ C12_Registration]_vars

\* setLife has returned after the first of its two listeners threw
C12_Witness ==
    /\ call.op = "setLife"
    /\ ~call.threw
    /\ Len(delivered) = 2
    /\ delivered[1].caught
    /\ delivered[2].listener = "cb1"
    /\ delivered[2].event = call.ret
    /\ call.ret.change # 0

----------------------------------------------------------------------------
\* the range [minLife, maxLife] of a configuration (no upper end when maxLife is null)
WithinRange(cfg, life) ==
    /\ life >= cfg.minLife
    /\ cfg.maxLife # Null => life <= cfg.maxLife[1]

\* C13: after any sequence of initializePlayer (with any starting value), setLife,
\* changeLife, dealDamage, heal, resetLife and resetAllLife every stored life total
\* lies within [minLife, maxLife].  initializePlayer stores its argument as given,
\* so a total below minLife or above maxLife is stored.
C13_LifeWithinRange ==
    \A i \in 1..Len(lifeTotals) : WithinRange(lifeConfig, lifeTotals[i].value)

\* v brought into the range of cfg: the nearest value of the range
ClampInto(cfg, v) ==
    IF v < cfg.minLife THEN cfg.minLife
    ELSE IF cfg.maxLife # Null /\ v > cfg.maxLife[1] THEN cfg.maxLife[1]
    ELSE v

\* the integers the claims pass as life totals and amounts
WideValues == -(MaxLife + 2)..(MaxLife + 2)

\* every entry of the map but the one of playerId is as in lifeTotals, and no
\* entry was added or removed
OthersUnchanged(m, playerId) ==
    /\ mapKeys(m) = mapKeys(lifeTotals)
    /\ \A i \in 1..Len(m) : m[i].key # playerId => m[i] = lifeTotals[i]

\* C14: setLife(id, v, source) on an initialized player, for every integer v,
\* stores v clamped into [minLife, maxLife], delivers exactly one life-change event
\* (also when the life does not change) and returns that event: previousLife the
\* life before the call, newLife the stored life, change their difference, and the
\* given source; no other player's life changes.
C14_SetLife ==
    \A i \in 1..Len(lifeTotals), v \in WideValues, source \in Sources :
        LET id == lifeTotals[i].key
            previous == lifeTotals[i].value
            r == setLife(lifeTotals, lifeConfig, lifeListeners, id, v, source)
        IN  /\ ~r.threw
            /\ mapGet(r.map, id) = ClampInto(lifeConfig, v)
            /\ r.ret = [playerId |-> id, previousLife |-> previous,
                        newLife |-> mapGet(r.map, id),
                        change |-> mapGet(r.map, id) - previous, source |-> source]
            /\ Received(r.delivered) = Handed(lifeListeners, r.ret)
            /\ OthersUnchanged(r.map, id)

\* setLife stored the life the player had, next to another player, and the
\* listener was handed the event
C14_Witness ==
    /\ call.op = "setLife"
    /\ ~call.threw
    /\ call.ret.change = 0
    /\ call.ret.source = "test"
    /\ Len(delivered) = 1
    /\ Len(lifeTotals) = 2

\* the call failed with the not-found error, wrote nothing and delivered nothing
FailsNotFound(r) ==
    /\ r.threw
    /\ r.ret = NotFound
    /\ r.map = lifeTotals
    /\ r.delivered = <<>>

\* C15: on a player id that was never initialized getLife, setLife, changeLife,
\* dealDamage (amount >= 0), heal (amount >= 0), isAlive, isDead and resetLife fail
\* with the not-found error, add no entry, change no life and deliver no event;
\* hasPlayer does not fail and returns false.
C15_UnknownPlayer ==
    \A id \in (LifeIds \cup {"non-existent"}) \ {lifeTotals[i].key : i \in 1..Len(lifeTotals)} :
        /\ hasPlayer(lifeTotals, id) = FALSE
        /\ FailsNotFound(getLife(lifeTotals, id))
        /\ FailsNotFound(isAlive(lifeTotals, lifeConfig, id))
        /\ FailsNotFound(isDead(lifeTotals, lifeConfig, id))
        /\ FailsNotFound(resetLife(lifeTotals, lifeConfig, lifeListeners, id))
        /\ \A v \in WideValues, source \in Sources :
            /\ FailsNotFound(setLife(lifeTotals, lifeConfig, lifeListeners, id, v, source))
            /\ FailsNotFound(changeLife(lifeTotals, lifeConfig, lifeListeners, id, v, source))
            /\ v >= 0 =>
                /\ FailsNotFound(dealDamage(lifeTotals, lifeConfig, lifeListeners, id, v, source))
                /\ FailsNotFound(heal(lifeTotals, lifeConfig, lifeListeners, id, v, source))

\* resetLife of a player that was never initialized has failed, while another
\* player is initialized and a listener is registered
C15_Witness ==
    /\ call.op = "resetLife"
    /\ call.threw
    /\ call.ret = NotFound
    /\ Len(lifeTotals) = 1
    /\ ~mapHas(lifeTotals, call.arg)
    /\ lifeListeners # <<>>

\* the call failed with the invalid-argument error, wrote nothing and delivered
\* nothing
FailsInvalidArgument(r) ==
    /\ r.threw
    /\ r.ret = InvalidArgument
    /\ r.map = lifeTotals
    /\ r.delivered = <<>>

\* C16: dealDamage(id, a) and heal(id, a) with a < 0 fail with the
\* invalid-argument error, leave every stored life total unchanged and deliver no
\* life-change event (whether or not id is initialized).
C16_NegativeAmount ==
    \A id \in LifeIds \cup {"non-existent"}, a \in WideValues, source \in Sources :
        a < 0 =>
            /\ FailsInvalidArgument(dealDamage(lifeTotals, lifeConfig, lifeListeners, id, a, source))
            /\ FailsInvalidArgument(heal(lifeTotals, lifeConfig, lifeListeners, id, a, source))

\* heal with a negative amount has failed for an initialized player that a
\* listener observes
C16_Witness ==
    /\ call.op = "heal"
    /\ call.threw
    /\ call.ret = InvalidArgument
    /\ mapHas(lifeTotals, call.arg)
    /\ lifeListeners # <<>>

\* a map with the single player id at life total life
OnePlayer(id, life) == <<[key |-> id, value |-> life]>>

\* C17: for an initialized player with life L and any delta, changeLife(id, d)
\* yields the state, the returned event and the notification of setLife(id, L + d):
\* the stored life is L + d clamped; for a >= 0, dealDamage(id, a) equals
\* changeLife(id, -a) and heal(id, a) equals changeLife(id, a).  With the default
\* configuration 25 damage at life 20 stores 0 and healing 100 at life 0 stores 100.
C17_ChangeLifeEquivalences ==
    /\ \A i \in 1..Len(lifeTotals), d \in WideValues, source \in Sources :
        LET id == lifeTotals[i].key
            L == lifeTotals[i].value
            c == changeLife(lifeTotals, lifeConfig, lifeListeners, id, d, source)
        IN  /\ c = setLife(lifeTotals, lifeConfig, lifeListeners, id, L + d, source)
            /\ mapGet(c.map, id) = ClampInto(lifeConfig, L + d)
            /\ Received(c.delivered) = Handed(lifeListeners, c.ret)
            /\ d >= 0 =>
                /\ dealDamage(lifeTotals, lifeConfig, lifeListeners, id, d, source)
                     = changeLife(lifeTotals, lifeConfig, lifeListeners, id, -d, source)
                /\ mapGet(dealDamage(lifeTotals, lifeConfig, lifeListeners, id, d, source).map, id)
                     = ClampInto(lifeConfig, L - d)
                /\ heal(lifeTotals, lifeConfig, lifeListeners, id, d, source) = c
    /\ mapGet(dealDamage(OnePlayer(player1Id, 20), LIFE_DEFAULT_CONFIG, lifeListeners,
                         player1Id, 25, NoSource).map, player1Id) = 0
    /\ mapGet(heal(OnePlayer(player1Id, 0), LIFE_DEFAULT_CONFIG, lifeListeners,
                   player1Id, 100, NoSource).map, player1Id) = 100

\* dealDamage took a player from just above minLife to minLife
C17_Witness ==
    /\ call.op = "dealDamage"
    /\ ~call.threw
    /\ call.ret.newLife = lifeConfig.minLife
    /\ call.ret.change = -1
    /\ mapGet(lifeTotals, call.arg) = call.ret.newLife

\* C18: for every initialized player in every reachable state isAlive(id) is true
\* exactly when the stored life is strictly greater than the configured minLife,
\* and isDead(id) is its negation; a player whose life damage reduced to minLife
\* is dead.
C18_AliveAboveMinLife ==
    \A i \in 1..Len(lifeTotals) :
        LET id == lifeTotals[i].key
            alive == isAlive(lifeTotals, lifeConfig, id)
            dead == isDead(lifeTotals, lifeConfig, id)
        IN  /\ ~alive.threw /\ ~dead.threw
            /\ alive.ret <=> lifeTotals[i].value > lifeConfig.minLife
            /\ dead.ret <=> ~alive.ret
            /\ \A a \in 0..(MaxLife + 2) :
                LET r == dealDamage(lifeTotals, lifeConfig, lifeListeners, id, a, NoSource)
                IN  mapGet(r.map, id) = lifeConfig.minLife =>
                        /\ isDead(r.map, lifeConfig, id).ret
                        /\ ~isAlive(r.map, lifeConfig, id).ret

\* damage has reduced a player to a minLife that is not 0
C18_Witness ==
    /\ call.op = "dealDamage"
    /\ ~call.threw
    /\ call.ret.change < 0
    /\ lifeConfig.minLife > 0
    /\ mapGet(lifeTotals, call.arg) = lifeConfig.minLife

\* the event of resetting the i-th player of lifeTotals to the life total target
ResetTo(i, target) ==
    [playerId |-> lifeTotals[i].key, previousLife |-> lifeTotals[i].value,
     newLife |-> target, change |-> target - lifeTotals[i].value, source |-> "reset"]

\* resetLife of each initialized player stores target for that player alone and
\* emits one 'reset' event; resetAllLife stores target for every player, emits one
\* 'reset' event per player and keeps the player ids
ResetsTo(target) ==
    /\ \A i \in 1..Len(lifeTotals) :
        LET id == lifeTotals[i].key
            r == resetLife(lifeTotals, lifeConfig, lifeListeners, id)
        IN  /\ ~r.threw
            /\ mapGet(r.map, id) = target
            /\ OthersUnchanged(r.map, id)
            /\ Received(r.delivered) = Handed(lifeListeners, ResetTo(i, target))
    /\ LET all == resetAllLife(lifeTotals, lifeConfig, lifeListeners)
       IN  /\ ~all.threw
           /\ mapKeys(all.map) = mapKeys(lifeTotals)
           /\ \A i \in 1..Len(all.map) : all.map[i].value = target
           /\ Received(all.delivered) =
                  HandedAll(lifeListeners, [i \in 1..Len(lifeTotals) |-> ResetTo(i, target)])

\* C19: resetLife(id) sets the player's life to the configured startingLife (not
\* the value the player was initialized with) and emits one event with source
\* 'reset'; resetAllLife() does so for every initialized player: afterwards every
\* life equals the configured startingLife, one 'reset' event per player was
\* delivered and the player ids are unchanged.  A manager constructed with a
\* maxLife below its startingLife resets to maxLife.
C19_ResetToStartingLife == ResetsTo(getStartingLife(lifeConfig))

\* what resetLife and resetAllLife store under every configuration: the
\* configured startingLife clamped into [minLife, maxLife]
ResetToClampedStartingLife ==
    ResetsTo(ClampInto(lifeConfig, getStartingLife(lifeConfig)))

----------------------------------------------------------------------------
(* The token manager as a state machine *)

\* counts passed to addToken and removeToken range over -1..MaxCount, and a call
\* that would store a count outside -1..MaxCount is not taken
MaxCount == 2

\* the stackLimit the token manager is constructed with
MaxStackLimit == 2

TokenCards == {"card-1", "card-2"}

\* a stackable kind, a kind that is not, and a string that is no kind
TokenIdArgs == {"damage-counter", "status-stun", "invalid-token"}

CountArgs == {Null} \cup {<<n>> : n \in -1..MaxCount}

TokenConfigs == {[stackLimit |-> MaxStackLimit]}

InTokenBound(t) ==
    \A i \in 1..Len(t) : \A k \in DOMAIN t[i].value :
        t[i].value[k] >= -1 /\ t[i].value[k] <= MaxCount

\* m as a holder of the TokenState objects of the cards in shared sees it after
\* the call that computed r wrote to the object of cardId
writeThrough(m, shared, cardId, r) ==
    IF Len(r.object) > 0 /\ cardId \in shared THEN mapSet(m, cardId, r.object[1]) ELSE m

\* the cards whose TokenState object the Map before held and the Map after does
\* not hold any more
unlinked(before, after) == {c \in TokenCards : mapHas(before, c) /\ ~mapHas(after, c)}

\* a method of the token manager: r is what the method's operator computed.  A
\* write to a TokenState object shows in every Map that holds the object.
TokenApply(op, cardId, r) ==
    /\ InTokenBound(r.map)
    /\ tokens' = r.map
    /\ snapshot' = IF snapshot.kind # "tokens" THEN snapshot
                   ELSE [snapshot EXCEPT
                            !.value = writeThrough(@, snapshot.shared, cardId, r),
                            !.shared = @ \ unlinked(tokens, r.map)]
    /\ other' = IF other.kind # "tokens" THEN other
                ELSE [other EXCEPT
                         !.map = writeThrough(@, other.shared, cardId, r),
                         !.shared = @ \ unlinked(tokens, r.map)]
    /\ call' = [op |-> op, arg |-> cardId, threw |-> r.threw, ret |-> r.ret]
    /\ delivered' = <<>>
    /\ UNCHANGED <<tokenConfig, turnVars, lifeVars>>

AddTokenCall(kinds, counts) ==
    \E cardId \in TokenCards, tokenId \in kinds, count \in counts :
        TokenApply("addToken", cardId, addToken(tokens, tokenConfig, cardId, tokenId, count))

RemoveTokenCall(kinds, counts) ==
    \E cardId \in TokenCards, tokenId \in kinds, count \in counts :
        TokenApply("removeToken", cardId, removeToken(tokens, cardId, tokenId, count))

TokenQueryCall ==
    \E cardId \in TokenCards, tokenId \in TokenIdArgs :
        TokenApply("getTokenCount", cardId,
                   tokenReturn(tokens, getTokenCount(tokens, cardId, tokenId)))

SetTokenCountCall(kinds, counts) ==
    \E cardId \in TokenCards, tokenId \in kinds, count \in counts :
        TokenApply("setTokenCount", cardId,
                   setTokenCount(tokens, tokenConfig, cardId, tokenId, count))

ClearTokensCall ==
    \E cardId \in TokenCards : TokenApply("clearTokens", cardId, clearTokens(tokens, cardId))

ClearAllTokensCall == TokenApply("clearAllTokens", "", clearAllTokens(tokens))

\* a call that takes no card and leaves every TokenState object as it is
TokenObserve(op) ==
    /\ call' = [op |-> op, arg |-> "", threw |-> FALSE, ret |-> Void]
    /\ delivered' = <<>>
    /\ UNCHANGED <<tokenConfig, turnVars, lifeVars>>

\* the Map serialize returns holds the TokenState objects of the manager, and so
\* does the second manager where it holds them too
TokenSerializeCall ==
    /\ snapshot' = [kind |-> "tokens", value |-> tokenSerialize(tokens),
                    shared |-> sharedByCopy(tokens)]
    /\ other' = IF other.kind # "tokens" THEN other
                ELSE [other EXCEPT !.sharedSnapshot = other.shared]
    /\ TokenObserve("TokenManager.serialize")
    /\ UNCHANGED tokens

\* restore(snapshot): the manager then holds the TokenState objects of the snapshot
TokenRestoreCall ==
    /\ snapshot.kind = "tokens"
    /\ tokens' = tokenRestore(tokens, snapshot.value).map
    /\ snapshot' = [snapshot EXCEPT !.shared = sharedByCopy(snapshot.value)]
    /\ other' = IF other.kind # "tokens" THEN other
                ELSE [other EXCEPT !.shared = other.sharedSnapshot]
    /\ TokenObserve("TokenManager.restore")

\* other = new TokenManager(config); other.restore(snapshot), or restore on the
\* second manager the caller has already
OtherTokenRestoreCall ==
    /\ snapshot.kind = "tokens"
    /\ other.kind \in {"none", "tokens"}
    /\ other' = [kind |-> "tokens",
                 map |-> tokenRestore(<<>>, snapshot.value).map,
                 shared |-> snapshot.shared \cap sharedByCopy(snapshot.value),
                 sharedSnapshot |-> sharedByCopy(snapshot.value)]
    /\ TokenObserve("other.restore")
    /\ UNCHANGED <<tokens, snapshot>>

\* a method of the second token manager: r is what the method's operator computed
\* from the Map of that manager
OtherTokenApply(op, cardId, r) ==
    /\ other.kind = "tokens"
    /\ InTokenBound(r.map)
    /\ other' = [other EXCEPT !.map = r.map,
                              !.shared = @ \ unlinked(other.map, r.map),
                              !.sharedSnapshot = @ \ unlinked(other.map, r.map)]
    /\ tokens' = writeThrough(tokens, other.shared, cardId, r)
    /\ snapshot' = IF snapshot.kind # "tokens" THEN snapshot
                   ELSE [snapshot EXCEPT
                            !.value = writeThrough(@, other.sharedSnapshot, cardId, r)]
    /\ call' = [op |-> op, arg |-> cardId, threw |-> r.threw, ret |-> r.ret]
    /\ delivered' = <<>>
    /\ UNCHANGED <<tokenConfig, turnVars, lifeVars>>

OtherAddTokenCall(kinds, counts) ==
    \E cardId \in TokenCards, tokenId \in kinds, count \in counts :
        OtherTokenApply("other.addToken", cardId,
                        addToken(other.map, tokenConfig, cardId, tokenId, count))

OtherRemoveTokenCall(kinds, counts) ==
    \E cardId \in TokenCards, tokenId \in kinds, count \in counts :
        OtherTokenApply("other.removeToken", cardId,
                        removeToken(other.map, cardId, tokenId, count))

NextToken ==
    \/ AddTokenCall(TokenIdArgs, CountArgs)
    \/ RemoveTokenCall(TokenIdArgs, CountArgs)
    \/ SetTokenCountCall(TokenIdArgs, -1..(MaxCount + 1))
    \/ ClearTokensCall
    \/ ClearAllTokensCall
    \/ TokenQueryCall

\* a token manager with a small stack limit, next to a turn manager and a life
\* manager that are constructed and never called
InitToken ==
    /\ TurnInit({TURN_DEFAULT_CONFIG})
    /\ LifeInit({LIFE_DEFAULT_CONFIG})
    /\ TokenInit(TokenConfigs)
    /\ CallerInit

SpecToken == InitToken /\ [][NextToken]_vars

----------------------------------------------------------------------------
\* the capacity of a kind: the stack limit for the three counters, 1 for the two
\* status kinds
Capacity(kind) ==
    IF kind \in {"damage-counter", "boost-counter", "shield-counter"}
    THEN tokenConfig.stackLimit ELSE 1

KnownKinds ==
    {"damage-counter", "boost-counter", "shield-counter", "status-stun", "status-freeze"}

\* strings that are no token kind; the last two name properties of Object.prototype
UnknownKinds == {"invalid-token", "", "damage", "constructor", "toString"}

\* addToken(card, kind, n) for each known kind stores and returns
\* min(current + n, capacity) and touches no other count
AddTokenKnownKinds ==
    \A cardId \in TokenCards, kind \in KnownKinds, n \in -1..(MaxCount + 1) :
        LET r == addToken(tokens, tokenConfig, cardId, kind, <<n>>)
            current == getTokenCount(tokens, cardId, kind)
        IN  /\ ~r.threw
            /\ r.ret = mathMin(current + n, Capacity(kind))
            /\ getTokenCount(r.map, cardId, kind) = r.ret
            /\ \A c \in TokenCards, k \in KnownKinds :
                  <<c, k>> # <<cardId, kind>> =>
                      getTokenCount(r.map, c, k) = getTokenCount(tokens, c, k)

\* addToken(card, kind, n) for each kind of kinds fails with the invalid-argument
\* error and leaves the token mapping as it was
AddTokenRejects(kinds) ==
    \A cardId \in TokenCards, kind \in kinds, count \in CountArgs :
        LET r == addToken(tokens, tokenConfig, cardId, kind, count)
        IN  /\ r.threw
            /\ r.ret = InvalidArgument
            /\ r.map = tokens

\* C20: addToken(card, kind, n) for a known kind stores and returns
\* min(current + n, capacity), capacity being the stackLimit for damage-counter,
\* boost-counter and shield-counter and 1 for status-stun and status-freeze; for an
\* unknown kind it fails with the invalid-argument error and the whole token
\* mapping, the set of cards included, is unchanged.  The strings 'constructor' and
\* 'toString' are no kinds, yet addToken accepts them.
C20_AddToken == AddTokenKnownKinds /\ AddTokenRejects(UnknownKinds)

\* the part of C20 that holds: known kinds, and unknown kinds that name no
\* property of Object.prototype
AddTokenButInherited ==
    AddTokenKnownKinds /\ AddTokenRejects(UnknownKinds \ InheritedKeys)

----------------------------------------------------------------------------
\* the kinds a card holds other than kind
OtherKindsOn(t, cardId, kind) == DOMAIN getTokensOnCard(t, cardId) \ {kind}

\* removeToken(card, kind, n) for each known kind: for a card with no entry it
\* returns 0 and changes nothing; otherwise it stores and returns
\* max(current - n, 0), a result of 0 deletes the kind entry, and a card left
\* without any kind is deleted from the mapping
RemoveTokenKnownKinds ==
    \A cardId \in TokenCards, kind \in KnownKinds, n \in -1..(MaxCount + 1) :
        LET r == removeToken(tokens, cardId, kind, <<n>>)
            current == getTokenCount(tokens, cardId, kind)
        IN  /\ ~r.threw
            /\ ~mapHas(tokens, cardId) => r.ret = 0 /\ r.map = tokens
            /\ mapHas(tokens, cardId) =>
                  /\ r.ret = mathMax(current - n, 0)
                  /\ getTokenCount(r.map, cardId, kind) = r.ret
                  /\ r.ret = 0 => kind \notin DOMAIN getTokensOnCard(r.map, cardId)
                  /\ r.ret = 0 /\ OtherKindsOn(tokens, cardId, kind) = {} =>
                        /\ ~hasTokens(r.map, cardId)
                        /\ ~includes(getCardsWithTokens(r.map), cardId)
                  /\ r.ret # 0 \/ OtherKindsOn(tokens, cardId, kind) # {} =>
                        /\ hasTokens(r.map, cardId)
                        /\ includes(getCardsWithTokens(r.map), cardId)

\* removeToken(card, kind, n) for each kind of kinds fails with the
\* invalid-argument error and leaves the token mapping as it was
RemoveTokenRejects(kinds) ==
    \A cardId \in TokenCards, kind \in kinds, count \in CountArgs :
        LET r == removeToken(tokens, cardId, kind, count)
        IN  /\ r.threw
            /\ r.ret = InvalidArgument
            /\ r.map = tokens

\* C21: removeToken(card, kind, n) for a known kind stores and returns
\* max(current - n, 0); a result of 0 deletes the kind entry, and a card then left
\* without any kind is deleted from the mapping (hasTokens false, the card absent
\* from getCardsWithTokens); for a card with no entry it returns 0 and changes
\* nothing; for an unknown kind it fails with the state unchanged.  The strings
\* 'constructor' and 'toString' are no kinds, yet removeToken accepts them.
C21_RemoveToken == RemoveTokenKnownKinds /\ RemoveTokenRejects(UnknownKinds)

\* the part of C21 that holds: known kinds, and unknown kinds that name no
\* property of Object.prototype
RemoveTokenButInherited ==
    RemoveTokenKnownKinds /\ RemoveTokenRejects(UnknownKinds \ InheritedKeys)

----------------------------------------------------------------------------
\* every count stored in t lies in 0..capacity of its kind
CountsWithinCapacity(t) ==
    \A i \in 1..Len(t) : \A kind \in DOMAIN t[i].value :
        t[i].value[kind] >= 0 /\ t[i].value[kind] <= Capacity(kind)

\* C22: after any sequence of addToken, removeToken and setTokenCount calls with
\* any integer count arguments, 0 and negative ones included, every stored count
\* of (card, kind) lies in 0..capacity(kind), the capacity being the stackLimit
\* for the stackable kinds and 1 for status-stun and status-freeze.
C22_CountWithinCapacity == CountsWithinCapacity(tokens)

\* what holds instead: a call with a count argument that is not negative takes
\* counts within capacity to counts within capacity
NonNegativeCountsKeepCapacity ==
    CountsWithinCapacity(tokens) =>
        \A cardId \in TokenCards, kind \in KnownKinds, n \in 0..(MaxCount + 1) :
            /\ CountsWithinCapacity(addToken(tokens, tokenConfig, cardId, kind, <<n>>).map)
            /\ CountsWithinCapacity(removeToken(tokens, cardId, kind, <<n>>).map)
            /\ CountsWithinCapacity(setTokenCount(tokens, tokenConfig, cardId, kind, n).map)
            /\ CountsWithinCapacity(setTokenCount(tokens, tokenConfig, cardId, kind, -n).map)

----------------------------------------------------------------------------
\* the cards that hold a positive count of some kind
CardsHolding(t) ==
    {cardId \in TokenCards : \E kind \in KnownKinds : getTokenCount(t, cardId, kind) > 0}

\* the cards of t are those holding a positive count, and the three queries agree
NonEmptyCards(t) ==
    /\ \A cardId \in TokenCards :
          /\ mapHas(t, cardId) <=> cardId \in CardsHolding(t)
          /\ hasTokens(t, cardId) <=> cardId \in CardsHolding(t)
          /\ includes(getCardsWithTokens(t), cardId) <=> cardId \in CardsHolding(t)
    /\ getTotalTokenCount(t) = 0 <=> getCardsWithTokens(t) = <<>>

\* C23: in every state reachable by addToken, removeToken, setTokenCount,
\* clearTokens and clearAllTokens, a card id is present in the mapping only if one
\* of its kinds has a count above 0: hasTokens(card) is true exactly when some kind
\* has getTokenCount(card, kind) > 0, getCardsWithTokens() returns exactly those
\* cards, and getTotalTokenCount() is 0 exactly when getCardsWithTokens() is empty.
C23_CardsHoldTokens == NonEmptyCards(tokens)

\* every card of t holds some kind, and every stored count is positive
StoredPositive(t) ==
    \A i \in 1..Len(t) :
        /\ DOMAIN t[i].value # {}
        /\ \A kind \in DOMAIN t[i].value : t[i].value[kind] > 0

\* what holds instead: positive count arguments to addToken and removeToken, and
\* any argument to setTokenCount, clearTokens and clearAllTokens, keep every stored
\* count positive, and then the cards of the mapping are those holding tokens
PositiveCountsKeepNonEmpty ==
    LET Kept(t) == StoredPositive(t) /\ NonEmptyCards(t)
    IN  StoredPositive(tokens) =>
            /\ NonEmptyCards(tokens)
            /\ \A cardId \in TokenCards, kind \in KnownKinds, n \in 1..(MaxCount + 1) :
                  /\ Kept(addToken(tokens, tokenConfig, cardId, kind, <<n>>).map)
                  /\ Kept(removeToken(tokens, cardId, kind, <<n>>).map)
                  /\ Kept(setTokenCount(tokens, tokenConfig, cardId, kind, n).map)
                  /\ Kept(setTokenCount(tokens, tokenConfig, cardId, kind, 1 - n).map)
            /\ \A cardId \in TokenCards : Kept(clearTokens(tokens, cardId).map)
            /\ Kept(clearAllTokens(tokens).map)

----------------------------------------------------------------------------
\* the count of kind on card after addToken(card, kind, n) and then
\* removeToken(card, kind, n)
AfterAddRemove(cardId, kind, n) ==
    LET added == addToken(tokens, tokenConfig, cardId, kind, <<n>>)
    IN  getTokenCount(removeToken(added.map, cardId, kind, <<n>>).map, cardId, kind)

\* removing the last unit of the only kind on a card makes hasTokens(card) false
LastUnitRemoved ==
    \A cardId \in TokenCards, kind \in KnownKinds :
        getTokensOnCard(tokens, cardId) = objSet(EmptyTokenState, kind, 1) =>
            LET r == removeToken(tokens, cardId, kind, <<1>>)
            IN  r.ret = 0 /\ ~hasTokens(r.map, cardId) /\ ~mapHas(r.map, cardId)

\* the count of kind on card lies within the capacity of kind
WithinCapacity(cardId, kind) ==
    /\ getTokenCount(tokens, cardId, kind) >= 0
    /\ getTokenCount(tokens, cardId, kind) <= Capacity(kind)

\* C24 as stated: for every known kind, every card, every count of that kind
\* within capacity and every n >= 1, addToken(card, kind, n) followed by
\* removeToken(card, kind, n) leaves getTokenCount(card, kind) at its value before
\* the add; and removing the last unit of the only kind on a card makes
\* hasTokens(card) false.
C24_AddRemoveRoundTrip ==
    /\ \A cardId \in TokenCards, kind \in KnownKinds, n \in 1..(MaxCount + 1) :
          WithinCapacity(cardId, kind) =>
              AfterAddRemove(cardId, kind, n) = getTokenCount(tokens, cardId, kind)
    /\ LastUnitRemoved

\* C24 amended: the round trip returns to the count before the add when
\* current + n does not exceed the capacity of the kind; when it does, the add is
\* clamped and the round trip leaves max(capacity - n, 0).  Removing the last unit
\* of the only kind on a card makes hasTokens(card) false.
C24_AddRemoveRoundTripBelowCapacity ==
    /\ \A cardId \in TokenCards, kind \in KnownKinds, n \in 1..(MaxCount + 1) :
          WithinCapacity(cardId, kind) =>
              LET current == getTokenCount(tokens, cardId, kind)
              IN  AfterAddRemove(cardId, kind, n) =
                      IF current + n <= Capacity(kind) THEN current
                      ELSE mathMax(Capacity(kind) - n, 0)
    /\ LastUnitRemoved

\* a card holds one unit of one kind below its capacity after removeToken took one
\* unit away, and another card holds a kind at its capacity
C24_Witness ==
    /\ call.op = "removeToken" /\ ~call.threw /\ call.arg = "card-1"
    /\ call.ret = 1
    /\ getTokensOnCard(tokens, "card-1") = objSet(EmptyTokenState, "damage-counter", 1)
    /\ getTokenCount(tokens, "card-2", "status-stun") = 1

----------------------------------------------------------------------------
\* v clamped into 0..capacity of kind
ClampCount(kind, v) ==
    IF v < 0 THEN 0 ELSE IF v > Capacity(kind) THEN Capacity(kind) ELSE v

\* t without the entry of kind on card, and without the card when it held no
\* other kind
WithoutKind(t, cardId, kind) ==
    IF ~mapHas(t, cardId) THEN t
    ELSE IF OtherKindsOn(t, cardId, kind) = {} THEN mapDelete(t, cardId)
    ELSE mapSet(t, cardId, objDelete(mapGet(t, cardId), kind))

\* setTokenCount(card, kind, n) for each known kind makes getTokenCount(card, kind)
\* n clamped into 0..capacity; a clamped value of 0 leaves the mapping without the
\* kind entry, and without the card entry when the card held no other kind
SetTokenCountKnownKinds ==
    \A cardId \in TokenCards, kind \in KnownKinds, n \in -1..(MaxCount + 2) :
        LET r == setTokenCount(tokens, tokenConfig, cardId, kind, n)
        IN  /\ ~r.threw
            /\ getTokenCount(r.map, cardId, kind) = ClampCount(kind, n)
            /\ ClampCount(kind, n) = 0 =>
                  /\ r.map = WithoutKind(tokens, cardId, kind)
                  /\ kind \notin DOMAIN getTokensOnCard(r.map, cardId)
                  /\ OtherKindsOn(tokens, cardId, kind) = {} => ~mapHas(r.map, cardId)

\* setTokenCount(card, kind, n) for each kind of kinds fails with the
\* invalid-argument error and leaves the token mapping as it was
SetTokenCountRejects(kinds) ==
    \A cardId \in TokenCards, kind \in kinds, n \in -1..(MaxCount + 2) :
        LET r == setTokenCount(tokens, tokenConfig, cardId, kind, n)
        IN  /\ r.threw
            /\ r.ret = InvalidArgument
            /\ r.map = tokens

\* C25: setTokenCount(card, kind, n) for a known kind makes
\* getTokenCount(card, kind) equal to n clamped into 0..capacity(kind); with a
\* clamped value of 0 the result is the state removeToken leaves when it removes
\* all tokens of that kind (the kind entry gone, and the card entry gone if it had
\* no other kind); for an unknown kind it fails with the state unchanged.  The
\* strings 'constructor' and 'toString' are no kinds, yet setTokenCount accepts
\* them.
C25_SetTokenCount == SetTokenCountKnownKinds /\ SetTokenCountRejects(UnknownKinds)

\* the part of C25 that holds: known kinds, and unknown kinds that name no
\* property of Object.prototype
SetTokenCountButInherited ==
    SetTokenCountKnownKinds /\ SetTokenCountRejects(UnknownKinds \ InheritedKeys)

----------------------------------------------------------------------------
\* after is before except for the count of kind on card: every other kind of the
\* card and every other card hold what they held
SameButFor(before, after, cardId, kind) ==
    /\ \A k \in KnownKinds \ {kind} :
          getTokenCount(after, cardId, k) = getTokenCount(before, cardId, k)
    /\ \A c \in TokenCards \ {cardId} :
          /\ mapHas(after, c) <=> mapHas(before, c)
          /\ getTokensOnCard(after, c) = getTokensOnCard(before, c)

\* C26: addToken, removeToken and setTokenCount on (card c, kind k) leave the count
\* of every other kind on c and every count on every other card unchanged;
\* clearTokens(c) removes every token of c and leaves all other cards unchanged;
\* clearAllTokens() leaves no card with tokens.
C26_TokenFrame ==
    /\ \A cardId \in TokenCards, kind \in KnownKinds \cup {"invalid-token"},
          n \in -1..(MaxCount + 1) :
          /\ SameButFor(tokens, addToken(tokens, tokenConfig, cardId, kind, <<n>>).map,
                        cardId, kind)
          /\ SameButFor(tokens, removeToken(tokens, cardId, kind, <<n>>).map, cardId, kind)
          /\ SameButFor(tokens, setTokenCount(tokens, tokenConfig, cardId, kind, n).map,
                        cardId, kind)
    /\ \A cardId \in TokenCards :
          LET r == clearTokens(tokens, cardId)
          IN  /\ ~r.threw
              /\ ~hasTokens(r.map, cardId)
              /\ getTokensOnCard(r.map, cardId) = EmptyTokenState
              /\ \A kind \in KnownKinds : getTokenCount(r.map, cardId, kind) = 0
              /\ \A c \in TokenCards \ {cardId} :
                    /\ mapHas(r.map, c) <=> mapHas(tokens, c)
                    /\ getTokensOnCard(r.map, c) = getTokensOnCard(tokens, c)
    /\ LET r == clearAllTokens(tokens)
       IN  /\ ~r.threw
           /\ getCardsWithTokens(r.map) = <<>>
           /\ \A c \in TokenCards : ~hasTokens(r.map, c)

\* clearTokens('card-1') has run and card-2 holds both kinds
C26_Witness ==
    /\ call.op = "clearTokens" /\ call.arg = "card-1"
    /\ ~mapHas(tokens, "card-1")
    /\ DOMAIN getTokensOnCard(tokens, "card-2") = {"damage-counter", "status-stun"}
    /\ getTokenCount(tokens, "card-2", "damage-counter") = 2

----------------------------------------------------------------------------
(* Snapshots of the token manager, and a second token manager restored from one *)

\* the kinds and counts passed where snapshots are taken: one stackable kind, one
\* unit at a time
ShareKinds == {"damage-counter"}

ShareCounts == {Null}

NextShare ==
    \/ AddTokenCall(ShareKinds, ShareCounts)
    \/ RemoveTokenCall(ShareKinds, ShareCounts)
    \/ SetTokenCountCall(ShareKinds, {0, MaxCount})
    \/ ClearTokensCall
    \/ TokenSerializeCall
    \/ TokenRestoreCall
    \/ OtherTokenRestoreCall
    \/ OtherAddTokenCall(ShareKinds, ShareCounts)
    \/ OtherRemoveTokenCall(ShareKinds, ShareCounts)

SpecShare == InitToken /\ [][NextShare]_vars

----------------------------------------------------------------------------
\* the calls that write token counts, on the manager and on the second manager
TokenWrites == {"addToken", "removeToken", "setTokenCount"}

OtherTokenWrites == {"other.addToken", "other.removeToken"}

\* C28: the value serialize() returned is not changed by any later addToken,
\* removeToken or setTokenCount on the manager, cards that had tokens when the
\* snapshot was taken included; and after other.restore(snapshot) the two managers
\* are independent: a write to one never changes what the other holds, and so no
\* query result of the other.
C28_SnapshotIndependence ==
    [][/\ call'.op \in TokenWrites /\ snapshot.kind = "tokens" =>
             snapshot'.value = snapshot.value
       /\ call'.op \in TokenWrites /\ other.kind = "tokens" => other'.map = other.map
       /\ call'.op \in OtherTokenWrites => tokens' = tokens]_vars

\* what holds instead: a write to a card that had no entry when the snapshot was
\* taken leaves the snapshot as it was
SnapshotKeepsAbsentCards ==
    [][call'.op \in TokenWrites /\ snapshot.kind = "tokens"
          /\ ~mapHas(snapshot.value, call'.arg) => snapshot'.value = snapshot.value]_vars

----------------------------------------------------------------------------
(* Objects and references.  The managers keep their fields in objects: the   *)
(* TurnState and its PhaseActions, the Map of life totals, the Map of        *)
(* TokenState objects, the array TURN_PHASES.  Where it matters who holds    *)
(* which object, 'other' is the store of the objects: cells is the sequence  *)
(* of objects, a reference is an index into it, the fields turn, life and    *)
(* tokens are this.state, this.lifeTotals and this.tokens of the three       *)
(* managers, turnB, lifeB and tokensB the same fields of the second manager  *)
(* of each class, Null until the caller has constructed it, and 'snapshot'   *)
(* is the reference the caller holds.  state, lifeTotals and tokens are then *)
(* what the fields of the first managers refer to, read through the store.   *)

\* the types of the objects, after the TypeScript types
TurnStateType == "TurnState"
PhaseActionsType == "PhaseActions"
LifeMapType == "Map<string, number>"
TokenMapType == "Map<string, TokenState>"
TokenStateType == "TokenState"
PhasesType == "TurnPhase[]"

\* an object literal or a constructor call: a new object of the given content
alloc(h, type, v) == [heap |-> Append(h, [type |-> type, v |-> v]), ref |-> Len(h) + 1]

\* the objects the object at a refers to, in the order of its properties or
\* entries
children(h, a) ==
    CASE h[a].type = TurnStateType -> <<h[a].v.phaseActionsRemaining>>
      [] h[a].type = TokenMapType -> [i \in 1..Len(h[a].v) |-> h[a].v[i].value]
      [] OTHER -> <<>>

RECURSIVE reached(_, _, _)
\* the objects a holder of the references in todo can get at, after those in
\* seen, each once, in the order in which it gets at them
reached(h, todo, seen) ==
    IF Len(todo) = 0 THEN seen
    ELSE IF \E i \in 1..Len(seen) : seen[i] = Head(todo)
    THEN reached(h, Tail(todo), seen)
    ELSE reached(h, children(h, Head(todo)) \o Tail(todo), Append(seen, Head(todo)))

\* the place of the object at a among the objects kept
moved(kept, a) == CHOOSE i \in 1..Len(kept) : kept[i] = a

\* the same of a field that holds a reference or Null
movedField(kept, field) == [i \in 1..Len(field) |-> moved(kept, field[i])]

\* The store without the objects nobody can get at.  A reference tells one
\* object from another and nothing else, so the objects kept are put in the
\* order in which the holders get at them, and the references follow.
collect(h, kept) ==
    [i \in 1..Len(kept) |->
        LET object == h[kept[i]]
        IN  CASE object.type = TurnStateType ->
                    [object EXCEPT !.v.phaseActionsRemaining = moved(kept, @)]
              [] object.type = TokenMapType ->
                    [object EXCEPT !.v = [j \in 1..Len(@) |->
                                             [key |-> @[j].key,
                                              value |-> moved(kept, @[j].value)]]]
              [] OTHER -> object]

\* { ...o } and [...a]: a new object with the properties of the object at a, each
\* holding what the property of that object holds; a property that refers to an
\* object refers to the same object in the copy
spread(h, a) == alloc(h, h[a].type, h[a].v)

RECURSIVE newMapFrom(_, _, _)
\* the entries of an iterable set one after the other into the Map m
newMapFrom(entries, i, m) ==
    IF i > Len(entries) THEN m
    ELSE newMapFrom(entries, i + 1, mapSet(m, entries[i].key, entries[i].value))

\* new Map(map): a new Map with the entries of the Map at a; a value that is an
\* object is the same object in the copy
newMap(h, a) == alloc(h, h[a].type, newMapFrom(h[a].v, 1, <<>>))

\* the TurnState at a, with the PhaseActions it refers to
readState(h, a) == [h[a].v EXCEPT !.phaseActionsRemaining = h[@].v]

\* the Map of life totals at a
readLife(h, a) == h[a].v

\* the Map at a with the TokenState objects its entries refer to
readTokens(h, a) ==
    [i \in 1..Len(h[a].v) |-> [key |-> h[a].v[i].key, value |-> h[h[a].v[i].value].v]]

\* the array at a
readPhases(h, a) == h[a].v

\* new TurnManager(player1Id, player2Id, config): this.state
constructTurnManager(h) ==
    LET flags == alloc(h, PhaseActionsType, DEFAULT_PHASE_ACTIONS["start"])
    IN  alloc(flags.heap, TurnStateType,
              [newState EXCEPT !.phaseActionsRemaining = flags.ref])

\* new LifeManager(config): this.lifeTotals
constructLifeManager(h) == alloc(h, LifeMapType, <<>>)

\* new TokenManager(config): this.tokens
constructTokenManager(h) == alloc(h, TokenMapType, <<>>)

\* { ...state, phaseActionsRemaining: { ...state.phaseActionsRemaining } } of the
\* TurnState at a
spreadState(h, a) ==
    LET outer == spread(h, a)
        inner == spread(outer.heap, h[a].v.phaseActionsRemaining)
    IN  [heap |-> [inner.heap EXCEPT ![outer.ref].v.phaseActionsRemaining = inner.ref],
         ref |-> outer.ref]

\* the methods, called on the manager whose field is the reference this: heap is
\* the store after the call, ref the object returned or assigned to the field

getPhaseActionsIn(h, this) == spread(h, h[this].v.phaseActionsRemaining)

\* getState spreading this.state only: the flags object would be the manager's
getStateIn_Shallow(h, this) == spread(h, this)

getStateIn(h, this) == spreadState(h, this)

getAllPhasesIn(h, phases) == spread(h, phases)

serializeIn(h, this) == getStateIn(h, this)

\* restore spreading its argument only: the flags object would be the caller's
restoreIn_Shallow(h, this, saved) == spread(h, saved)

\* this.state = { ...state, ... }: ref is the new this.state
restoreIn(h, this, saved) == spreadState(h, saved)

\* nextPhase, setPhase and endTurn assign to the properties of this.state and
\* give it a new PhaseActions object; r is what the method computes from the
\* TurnState it finds
assignState(h, this, r) ==
    IF r.threw THEN [heap |-> h, threw |-> TRUE, ret |-> r.ret, delivered |-> r.delivered]
    ELSE LET flags == alloc(h, PhaseActionsType, r.st.phaseActionsRemaining)
         IN  [heap |-> [flags.heap EXCEPT
                           ![this].v = [r.st EXCEPT !.phaseActionsRemaining = flags.ref]],
              threw |-> FALSE, ret |-> r.ret, delivered |-> r.delivered]

nextPhaseIn(h, this, cfg, tl, pl) ==
    assignState(h, this, nextPhase(readState(h, this), cfg, tl, pl))

setPhaseIn(h, this, phase, pl) == assignState(h, this, setPhase(readState(h, this), phase, pl))

endTurnIn(h, this, tl) == assignState(h, this, endTurn(readState(h, this), tl))

\* this.state.phaseActionsRemaining[action] = false: a write to the flags object
useActionIn(h, this, action) ==
    LET r == useAction(readState(h, this), action)
    IN  [heap |-> IF r.threw THEN h
                  ELSE [h EXCEPT ![h[this].v.phaseActionsRemaining].v =
                                     r.st.phaseActionsRemaining],
         threw |-> r.threw, ret |-> r.ret, delivered |-> r.delivered]

\* this.lifeTotals.set(playerId, life): a write to the Map
initializePlayerIn(h, this, cfg, playerId, startingLife) ==
    LET r == initializePlayer(readLife(h, this), cfg, playerId, startingLife)
    IN  [heap |-> [h EXCEPT ![this].v = r.map],
         threw |-> r.threw, ret |-> r.ret, delivered |-> r.delivered]

\* this.lifeTotals.set(playerId, clampedLife): a write to the Map
setLifeIn(h, this, cfg, listeners, playerId, life, source) ==
    LET r == setLife(readLife(h, this), cfg, listeners, playerId, life, source)
    IN  [heap |-> [h EXCEPT ![this].v = r.map],
         threw |-> r.threw, ret |-> r.ret, delivered |-> r.delivered]

getAllLifeTotalsIn(h, this) == newMap(h, this)

lifeSerializeIn(h, this) == newMap(h, this)

\* restore setting the entries of its argument into the Map the manager has
lifeRestoreIn_Merge(h, this, saved) ==
    [heap |-> [h EXCEPT ![this].v = newMapFrom(h[saved].v, 1, h[this].v)], ref |-> this]

\* this.lifeTotals = new Map(state): ref is the new this.lifeTotals
lifeRestoreIn(h, this, saved) == newMap(h, saved)

\* a method of the token manager that writes to the TokenState object of cardId,
\* which it puts into the Map first where the card has none, and deletes the
\* entry of a card it leaves without tokens; r is what the method computes from
\* the Map it finds
writeTokenState(h, this, cardId, r) ==
    IF Len(r.object) = 0 THEN h
    ELSE LET entries == h[this].v
             had == mapHas(entries, cardId)
             object == IF had THEN mapGet(entries, cardId) ELSE Len(h) + 1
             cell == [type |-> TokenStateType, v |-> r.object[1]]
             written == IF had THEN [h EXCEPT ![object] = cell] ELSE Append(h, cell)
         IN  [written EXCEPT ![this].v = IF mapHas(r.map, cardId)
                                          THEN mapSet(entries, cardId, object)
                                          ELSE mapDelete(entries, cardId)]

addTokenIn(h, this, cfg, cardId, tokenId, count) ==
    LET r == addToken(readTokens(h, this), cfg, cardId, tokenId, count)
    IN  [heap |-> writeTokenState(h, this, cardId, r), threw |-> r.threw, ret |-> r.ret,
         delivered |-> <<>>]

removeTokenIn(h, this, cardId, tokenId, count) ==
    LET r == removeToken(readTokens(h, this), cardId, tokenId, count)
    IN  [heap |-> writeTokenState(h, this, cardId, r), threw |-> r.threw, ret |-> r.ret,
         delivered |-> <<>>]

\* { ...(this.tokens.get(cardId) ?? {}) }
getTokensOnCardIn(h, this, cardId) ==
    IF mapHas(h[this].v, cardId) THEN spread(h, mapGet(h[this].v, cardId))
    ELSE alloc(h, TokenStateType, EmptyTokenState)

\* new Map(this.tokens): the copy holds the TokenState objects of the manager
tokenSerializeIn(h, this) == newMap(h, this)

\* this.tokens = new Map(state): ref is the new this.tokens
tokenRestoreIn(h, this, saved) == newMap(h, saved)

----------------------------------------------------------------------------
(* The managers and their caller, object by object *)

\* the three managers constructed, the module's TURN_PHASES, no second manager,
\* and a caller that holds nothing.  threw and ret are what the last call made
\* on the second turn manager did, before is what getPlayerIds() returned to the
\* caller before the life manager restored last.
NewObjects ==
    LET phases == alloc(<<>>, PhasesType, TURN_PHASES)
        turn == constructTurnManager(phases.heap)
        life == constructLifeManager(turn.heap)
        tokenMap == constructTokenManager(life.heap)
    IN  [kind |-> "objects", cells |-> tokenMap.heap, TURN_PHASES |-> phases.ref,
         turn |-> turn.ref, life |-> life.ref, tokens |-> tokenMap.ref,
         turnB |-> Null, lifeB |-> Null, tokensB |-> Null,
         threw |-> FALSE, ret |-> Void, before |-> <<>>]

InitObjects(turnConfigs, lifeConfigs) ==
    /\ state = readState(NewObjects.cells, NewObjects.turn)
    /\ config \in turnConfigs
    /\ turnListeners = <<>>
    /\ phaseListeners = <<>>
    /\ lifeTotals = readLife(NewObjects.cells, NewObjects.life)
    /\ lifeConfig \in lifeConfigs
    /\ lifeListeners = <<>>
    /\ tokens = readTokens(NewObjects.cells, NewObjects.tokens)
    /\ tokenConfig \in TokenConfigs
    /\ snapshot = NoSnapshot
    /\ other = NewObjects
    /\ call = [op |-> "constructor", arg |-> "", threw |-> FALSE, ret |-> Void]
    /\ delivered = <<>>

\* the references the managers and the caller hold
Roots(o, held) ==
    <<o.TURN_PHASES, o.turn, o.life, o.tokens>> \o o.turnB \o o.lifeB \o o.tokensB
        \o (IF held.kind = "none" THEN <<>> ELSE <<held.ref>>)

\* a call after which the store and the fields are as in o and the caller holds
\* held: the fields of the first managers are read through the store
ObjectsApply(op, arg, r, o, held) ==
    \E after \in {o} :
        \E kept \in {reached(after.cells, Roots(after, held), <<>>)} :
            /\ other' = [after EXCEPT !.cells = collect(after.cells, kept),
                                      !.TURN_PHASES = moved(kept, @),
                                      !.turn = moved(kept, @),
                                      !.life = moved(kept, @),
                                      !.tokens = moved(kept, @),
                                      !.turnB = movedField(kept, @),
                                      !.lifeB = movedField(kept, @),
                                      !.tokensB = movedField(kept, @)]
            /\ snapshot' = IF held.kind = "none" THEN held
                           ELSE [held EXCEPT !.ref = moved(kept, @)]
            /\ state' = readState(after.cells, after.turn)
            /\ lifeTotals' = readLife(after.cells, after.life)
            /\ tokens' = readTokens(after.cells, after.tokens)
            /\ call' = [op |-> op, arg |-> arg, threw |-> r.threw, ret |-> r.ret]
            /\ delivered' = r.delivered
            /\ UNCHANGED <<config, turnListeners, phaseListeners, lifeConfig, lifeListeners,
                           tokenConfig>>

\* a call that returns normally and tells no listener
Returned == [threw |-> FALSE, ret |-> Void, delivered |-> <<>>]

\* the caller keeps the object a getter returned: got is the store after the
\* call and the reference returned
Hold(op, kind, got) ==
    ObjectsApply(op, "", Returned, [other EXCEPT !.cells = got.heap],
                 [kind |-> kind, ref |-> got.ref])

TurnObjectCall(op, arg, r) ==
    ObjectsApply(op, arg, r, [other EXCEPT !.cells = r.heap], snapshot)

NextPhaseObjectCall ==
    /\ state.phase = "end" => state.turnNumber < MaxTurn
    /\ TurnObjectCall("nextPhase", "",
                      nextPhaseIn(other.cells, other.turn, config, turnListeners,
                                  phaseListeners))

UseActionObjectCall ==
    \E action \in ActionNames :
        TurnObjectCall("useAction", action, useActionIn(other.cells, other.turn, action))

GetPhaseActionsCall ==
    Hold("getPhaseActions", "actions", getPhaseActionsIn(other.cells, other.turn))

GetStateCall == Hold("getState", "state", getStateIn(other.cells, other.turn))

GetAllPhasesCall ==
    Hold("getAllPhases", "phases", getAllPhasesIn(other.cells, other.TURN_PHASES))

InitializePlayerObjectCall(lives) ==
    \E playerId \in LifeIds, startingLife \in lives :
        LET r == initializePlayerIn(other.cells, other.life, lifeConfig, playerId,
                                    startingLife)
        IN  /\ InLifeBound(readLife(r.heap, other.life))
            /\ ObjectsApply("initializePlayer", playerId, r,
                            [other EXCEPT !.cells = r.heap], snapshot)

SetLifeObjectCall(lives) ==
    \E playerId \in LifeIds, life \in lives :
        LET r == setLifeIn(other.cells, other.life, lifeConfig, lifeListeners, playerId,
                           life, NoSource)
        IN  /\ InLifeBound(readLife(r.heap, other.life))
            /\ ObjectsApply("setLife", playerId, r, [other EXCEPT !.cells = r.heap],
                            snapshot)

GetAllLifeTotalsCall ==
    Hold("getAllLifeTotals", "life", getAllLifeTotalsIn(other.cells, other.life))

TokenObjectCall(op, cardId, r) ==
    /\ InTokenBound(readTokens(r.heap, other.tokens))
    /\ ObjectsApply(op, cardId, r, [other EXCEPT !.cells = r.heap], snapshot)

AddTokenObjectCall(kinds, counts) ==
    \E cardId \in TokenCards, tokenId \in kinds, count \in counts :
        TokenObjectCall("addToken", cardId,
                        addTokenIn(other.cells, other.tokens, tokenConfig, cardId, tokenId,
                                   count))

RemoveTokenObjectCall(kinds, counts) ==
    \E cardId \in TokenCards, tokenId \in kinds, count \in counts :
        TokenObjectCall("removeToken", cardId,
                        removeTokenIn(other.cells, other.tokens, cardId, tokenId, count))

GetTokensOnCardCall ==
    \E cardId \in TokenCards :
        Hold("getTokensOnCard", "tokensOnCard",
             getTokensOnCardIn(other.cells, other.tokens, cardId))

HeldKinds == {"actions", "state", "phases", "life", "tokensOnCard"}

\* the flag a caller sets in an object it holds
HeldFlags == {"canPlayCards"}

\* the properties of the object it holds that the caller assigns to
HeldProperties(kind) ==
    CASE kind = "actions" -> HeldFlags
      [] kind = "state" -> HeldFlags \cup {"turnNumber"}
      [] kind = "phases" -> {"length"}
      [] kind = "life" -> LifeIds
      [] kind = "tokensOnCard" -> ShareKinds

\* the caller's write: actions[flag] = true, state.phaseActionsRemaining[flag] =
\* true, state.turnNumber = 100, phases.push('fake'), totals.set(playerId, 100),
\* tokens[tokenId] = 100
assignHeld(h, held, property) ==
    CASE held.kind = "actions" -> [h EXCEPT ![held.ref].v[property] = TRUE]
      [] held.kind = "state" /\ property = "turnNumber" ->
            [h EXCEPT ![held.ref].v.turnNumber = 100]
      [] held.kind = "state" /\ property # "turnNumber" ->
            [h EXCEPT ![h[held.ref].v.phaseActionsRemaining].v[property] = TRUE]
      [] held.kind = "phases" -> [h EXCEPT ![held.ref].v = Append(@, "fake")]
      [] held.kind = "life" -> [h EXCEPT ![held.ref].v = mapSet(@, property, 100)]
      [] held.kind = "tokensOnCard" -> [h EXCEPT ![held.ref].v = objSet(@, property, 100)]

\* the caller writes to the object it holds; whoever holds the object sees it.
\* It pushes onto an array once.
MutateHeldCall ==
    /\ snapshot.kind \in HeldKinds
    /\ snapshot.kind = "phases" => ~includes(readPhases(other.cells, snapshot.ref), "fake")
    /\ \E property \in HeldProperties(snapshot.kind) :
          ObjectsApply("mutate", property, Returned,
                       [other EXCEPT !.cells = assignHeld(other.cells, snapshot, property)],
                       snapshot)

----------------------------------------------------------------------------
(* Snapshots of the life manager and of the token manager, restored into the    *)
(* manager that took them and into a second manager.  The managers of the two   *)
(* classes share no object, so each is called while the other has not been      *)
(* touched.                                                                     *)

LifeIdle == lifeTotals = <<>> /\ snapshot.kind # "life" /\ other.lifeB = Null

TokenIdle ==
    tokens = <<>> /\ snapshot.kind \notin {"tokens", "tokensOnCard"}
    /\ other.tokensB = Null

TurnIdle ==
    state = newState /\ snapshot.kind \notin {"actions", "state", "phases"}
    /\ other.turnB = Null

LifeSerializeCall ==
    Hold("LifeManager.serialize", "life", lifeSerializeIn(other.cells, other.life))

\* restore(snapshot) on the manager, which may have players: before is what
\* getPlayerIds() returned to the caller before the call
LifeRestoreCall ==
    /\ snapshot.kind = "life"
    /\ LET r == lifeRestoreIn(other.cells, other.life, snapshot.ref)
       IN  ObjectsApply("LifeManager.restore", "", Returned,
                        [other EXCEPT !.cells = r.heap, !.life = r.ref,
                                      !.before = getPlayerIds(lifeTotals)],
                        snapshot)

\* other = new LifeManager(config); other.restore(snapshot), or restore on the
\* second manager the caller has already
OtherLifeRestoreCall ==
    /\ snapshot.kind = "life"
    /\ LET b == IF other.lifeB = Null THEN constructLifeManager(other.cells)
                ELSE [heap |-> other.cells, ref |-> other.lifeB[1]]
           r == lifeRestoreIn(b.heap, b.ref, snapshot.ref)
       IN  ObjectsApply("other.restore", "", Returned,
                        [other EXCEPT !.cells = r.heap, !.lifeB = <<r.ref>>],
                        snapshot)

TokenSerializeObjectCall ==
    Hold("TokenManager.serialize", "tokens", tokenSerializeIn(other.cells, other.tokens))

TokenRestoreObjectCall ==
    /\ snapshot.kind = "tokens"
    /\ LET r == tokenRestoreIn(other.cells, other.tokens, snapshot.ref)
       IN  ObjectsApply("TokenManager.restore", "", Returned,
                        [other EXCEPT !.cells = r.heap, !.tokens = r.ref],
                        snapshot)

OtherTokenRestoreObjectCall ==
    /\ snapshot.kind = "tokens"
    /\ LET b == IF other.tokensB = Null THEN constructTokenManager(other.cells)
                ELSE [heap |-> other.cells, ref |-> other.tokensB[1]]
           r == tokenRestoreIn(b.heap, b.ref, snapshot.ref)
       IN  ObjectsApply("other.restore", "", Returned,
                        [other EXCEPT !.cells = r.heap, !.tokensB = <<r.ref>>],
                        snapshot)

NextRoundTrip ==
    \/ TokenIdle /\ InitializePlayerObjectCall({Null})
    \/ TokenIdle /\ SetLifeObjectCall({0})
    \/ TokenIdle /\ LifeSerializeCall
    \/ TokenIdle /\ LifeRestoreCall
    \/ TokenIdle /\ OtherLifeRestoreCall
    \/ LifeIdle /\ AddTokenObjectCall(ShareKinds \cup {"status-stun"}, ShareCounts)
    \/ LifeIdle /\ RemoveTokenObjectCall(ShareKinds, ShareCounts)
    \/ LifeIdle /\ TokenSerializeObjectCall
    \/ LifeIdle /\ TokenRestoreObjectCall
    \/ LifeIdle /\ OtherTokenRestoreObjectCall

InitRoundTrip == InitObjects({TURN_DEFAULT_CONFIG}, LifeConfigs)

SpecRoundTrip == InitRoundTrip /\ [][NextRoundTrip]_vars

\* every getter of the life manager answers the same on the Maps a and b
SameLifeGetters(a, b) ==
    /\ \A id \in LifeIds \cup {foreignPlayerId} :
          /\ getLife(a, id).threw = getLife(b, id).threw
          /\ getLife(a, id).ret = getLife(b, id).ret
          /\ hasPlayer(a, id) = hasPlayer(b, id)
          /\ isAlive(a, lifeConfig, id).threw = isAlive(b, lifeConfig, id).threw
          /\ isAlive(a, lifeConfig, id).ret = isAlive(b, lifeConfig, id).ret
    /\ getPlayerIds(a) = getPlayerIds(b)
    /\ getAllLifeTotals(a) = getAllLifeTotals(b)

\* every getter of the token manager answers the same on the Maps a and b
SameTokenGetters(a, b) ==
    /\ \A cardId \in TokenCards \cup {"card-3"} :
          /\ \A kind \in KnownKinds :
                getTokenCount(a, cardId, kind) = getTokenCount(b, cardId, kind)
          /\ getTokensOnCard(a, cardId) = getTokensOnCard(b, cardId)
          /\ hasTokens(a, cardId) = hasTokens(b, cardId)
    /\ getCardsWithTokens(a) = getCardsWithTokens(b)
    /\ getTotalTokenCount(a) = getTotalTokenCount(b)

\* fresh = new LifeManager(config); fresh.restore(manager.serialize()), made now:
\* the store afterwards and this.lifeTotals of the fresh manager
FreshLifeManager ==
    LET saved == lifeSerializeIn(other.cells, other.life)
        fresh == constructLifeManager(saved.heap)
    IN  lifeRestoreIn(fresh.heap, fresh.ref, saved.ref)

\* the same of the token manager
FreshTokenManager ==
    LET saved == tokenSerializeIn(other.cells, other.tokens)
        fresh == constructTokenManager(saved.heap)
    IN  tokenRestoreIn(fresh.heap, fresh.ref, saved.ref)

\* a manager constructed now and given what serialize returns now answers every
\* getter as the manager it came from
FreshRestoreAgrees ==
    LET fresh == FreshLifeManager
        freshTokens == FreshTokenManager
    IN  /\ SameLifeGetters(readLife(fresh.heap, fresh.ref), readLife(fresh.heap, other.life))
        /\ SameTokenGetters(readTokens(freshTokens.heap, freshTokens.ref),
                            readTokens(freshTokens.heap, other.tokens))

\* a restore step leaves the restoring manager with exactly the snapshot: it
\* answers as the snapshot's manager did, and what the snapshot lacks is gone
RestoreReplaces ==
    /\ call'.op = "LifeManager.restore" =>
          /\ SameLifeGetters(lifeTotals', readLife(other.cells, snapshot.ref))
          /\ \A id \in LifeIds :
                ~mapHas(readLife(other.cells, snapshot.ref), id) =>
                    ~hasPlayer(lifeTotals', id) /\ ~includes(getPlayerIds(lifeTotals'), id)
    /\ call'.op = "TokenManager.restore" =>
          /\ SameTokenGetters(tokens', readTokens(other.cells, snapshot.ref))
          /\ \A cardId \in TokenCards :
                ~mapHas(readTokens(other.cells, snapshot.ref), cardId) =>
                    ~hasTokens(tokens', cardId)
                    /\ ~includes(getCardsWithTokens(tokens'), cardId)
    /\ call'.op = "other.restore" /\ other'.lifeB # Null =>
          SameLifeGetters(readLife(other'.cells, other'.lifeB[1]),
                          readLife(other.cells, snapshot.ref))
    /\ call'.op = "other.restore" /\ other'.tokensB # Null =>
          SameTokenGetters(readTokens(other'.cells, other'.tokensB[1]),
                           readTokens(other.cells, snapshot.ref))

\* C29: for any state of a life manager or a token manager, restore(serialize())
\* on a fresh instance with the same config gives identical results for every
\* getter (getLife, hasPlayer, getPlayerIds, getAllLifeTotals, isAlive;
\* getTokenCount, getTokensOnCard, hasTokens, getCardsWithTokens,
\* getTotalTokenCount), and restore on an instance that is not fresh replaces its
\* state, so players or cards absent from the snapshot are no longer present.
C29_RestoreRoundTrip == []FreshRestoreAgrees /\ [][RestoreReplaces]_vars

\* the life manager had both players and has restored a snapshot taken when it
\* had the first only, which a second manager had restored before: the second
\* player is gone
C29_Witness ==
    /\ call.op = "LifeManager.restore"
    /\ other.before = <<player1Id, player2Id>>
    /\ getPlayerIds(lifeTotals) = <<player1Id>>
    /\ ~hasPlayer(lifeTotals, player2Id)
    /\ snapshot.kind = "life" /\ readLife(other.cells, snapshot.ref) = lifeTotals
    /\ other.lifeB # Null /\ readLife(other.cells, other.lifeB[1]) = lifeTotals

----------------------------------------------------------------------------
(* Objects a caller holds: what a getter returned, and writes to it *)

\* each manager is written to and read while the other two have not been touched
NextCopy ==
    \/ LifeIdle /\ TokenIdle /\ NextPhaseObjectCall
    \/ LifeIdle /\ TokenIdle /\ UseActionObjectCall
    \/ LifeIdle /\ TokenIdle /\ GetPhaseActionsCall
    \/ LifeIdle /\ TokenIdle /\ GetStateCall
    \/ LifeIdle /\ TokenIdle /\ GetAllPhasesCall
    \/ TurnIdle /\ TokenIdle /\ InitializePlayerObjectCall({Null, <<0>>})
    \/ TurnIdle /\ TokenIdle /\ GetAllLifeTotalsCall
    \/ TurnIdle /\ LifeIdle /\ AddTokenObjectCall(ShareKinds, ShareCounts)
    \/ TurnIdle /\ LifeIdle /\ GetTokensOnCardCall
    \/ MutateHeldCall

\* the life manager has the defaults scaled down
InitCopy ==
    InitObjects({TURN_DEFAULT_CONFIG}, {[startingLife |-> 2, minLife |-> 0, maxLife |-> Null]})

SpecCopy == InitCopy /\ [][NextCopy]_vars

\* what the queries of the three managers return in the store h to the holders
\* of the fields in o
Answers(h, o) ==
    [getState |-> getState(readState(h, o.turn)),
     getPhaseActions |-> getPhaseActions(readState(h, o.turn)),
     canPerformAction |->
        [action \in ActionNames |-> canPerformAction(readState(h, o.turn), action)],
     getAllPhases |-> readPhases(h, o.TURN_PHASES),
     getAllLifeTotals |-> getAllLifeTotals(readLife(h, o.life)),
     getPlayerIds |-> getPlayerIds(readLife(h, o.life)),
     getTokensOnCard |->
        [cardId \in TokenCards |-> getTokensOnCard(readTokens(h, o.tokens), cardId)],
     getTokenCount |->
        [cardId \in TokenCards |->
            [kind \in KnownKinds |-> getTokenCount(readTokens(h, o.tokens), cardId, kind)]],
     getCardsWithTokens |-> getCardsWithTokens(readTokens(h, o.tokens))]

\* C27: mutating a value returned by getPhaseActions(), getState(),
\* getAllPhases(), getAllLifeTotals() or getTokensOnCard() never changes what the
\* manager subsequently returns from any query: after the caller's write to the
\* returned object the queries of the three managers answer from their own
\* objects as before, so no flag has turned true and no life total or token
\* count has changed, and TURN_PHASES holds the eight phases still.
C27_CopyOnRead ==
    [][call'.op = "mutate" =>
          /\ Answers(other'.cells, other') = Answers(other.cells, other)
          /\ readPhases(other'.cells, other'.TURN_PHASES) = TURN_PHASES
          /\ state' = state /\ lifeTotals' = lifeTotals /\ tokens' = tokens]_vars

\* the caller has set canPlayCards in the object getState() returned, in a phase
\* whose flags forbid playing cards
C27_Witness ==
    /\ call.op = "mutate" /\ call.arg = "canPlayCards"
    /\ snapshot.kind = "state"
    /\ readState(other.cells, snapshot.ref).phaseActionsRemaining["canPlayCards"]
    /\ ~getPhaseActions(state)["canPlayCards"]
    /\ readState(other.cells, snapshot.ref).phase = state.phase

----------------------------------------------------------------------------
(* A second turn manager restored from the first, then called as the first is *)

\* other = new TurnManager(player1Id, player2Id, config);
\* other.restore(this.serialize()): the caller keeps the serialized value
OtherTurnRestoreCall ==
    /\ other.turnB = Null
    /\ LET saved == serializeIn(other.cells, other.turn)
           b == constructTurnManager(saved.heap)
           r == restoreIn(b.heap, b.ref, saved.ref)
       IN  ObjectsApply("other.restore", "", Returned,
                        [other EXCEPT !.cells = r.heap, !.turnB = <<r.ref>>],
                        [kind |-> "state", ref |-> saved.ref])

\* the same method called on the manager and then on the second manager: r and
\* rOther are what the method did for each, rOther in the store r left
ApplyBoth(op, arg, r, rOther) ==
    /\ other.turnB # Null
    /\ ObjectsApply(op, arg, r,
                    [other EXCEPT !.cells = rOther.heap, !.threw = rOther.threw,
                                  !.ret = rOther.ret],
                    snapshot)

\* the second manager has no listeners
BothNextPhaseCall ==
    /\ state.phase = "end" => state.turnNumber < MaxTurn
    /\ LET r == nextPhaseIn(other.cells, other.turn, config, turnListeners, phaseListeners)
       IN  ApplyBoth("both.nextPhase", "", r,
                     nextPhaseIn(r.heap, other.turnB[1], config, <<>>, <<>>))

BothSetPhaseCall ==
    \E phase \in PhaseArgs :
        LET r == setPhaseIn(other.cells, other.turn, phase, phaseListeners)
        IN  ApplyBoth("both.setPhase", phase, r,
                      setPhaseIn(r.heap, other.turnB[1], phase, <<>>))

BothEndTurnCall ==
    /\ state.turnNumber < MaxTurn
    /\ LET r == endTurnIn(other.cells, other.turn, turnListeners)
       IN  ApplyBoth("both.endTurn", "", r, endTurnIn(r.heap, other.turnB[1], <<>>))

BothUseActionCall ==
    \E action \in ActionNames :
        LET r == useActionIn(other.cells, other.turn, action)
        IN  ApplyBoth("both.useAction", action, r,
                      useActionIn(r.heap, other.turnB[1], action))

\* the first manager has a callback for the turns and one, which throws, for the
\* phases
Listening == Len(turnListeners) = 1 /\ Len(phaseListeners) = 1

\* the first manager is given its listeners, then called, then the second is
\* restored from it, which has no listeners
NextMirror ==
    \/ Len(turnListeners) = 0 /\ AddTurnListenerCall(SingleListener)
    \/ Len(turnListeners) = 1 /\ Len(phaseListeners) = 0
          /\ AddPhaseListenerCall(ThrowingListeners)
    \/ Listening /\ other.turnB = Null /\ NextPhaseObjectCall
    \/ Listening /\ other.turnB = Null /\ UseActionObjectCall
    \/ Listening /\ OtherTurnRestoreCall
    \/ BothNextPhaseCall
    \/ BothSetPhaseCall
    \/ BothEndTurnCall
    \/ BothUseActionCall
    \/ MutateHeldCall

InitMirror == InitObjects({TURN_DEFAULT_CONFIG}, {LIFE_DEFAULT_CONFIG})

SpecMirror == InitMirror /\ [][NextMirror]_vars

BothOps == {"both.nextPhase", "both.setPhase", "both.endTurn", "both.useAction"}

\* getState() called now on the manager whose this.state is the reference this:
\* the TurnState returned
getStateNow(this) ==
    readState(getStateIn(other.cells, this).heap, getStateIn(other.cells, this).ref)

\* getState() of the second manager equals getState() of the first, and the call
\* made on both last returned or failed on both alike
TwinAgrees ==
    other.turnB # Null =>
        /\ getStateNow(other.turnB[1]) = getStateNow(other.turn)
        /\ call.op \in BothOps =>
              /\ other.threw = call.threw
              /\ other.ret = call.ret

\* C30: if manager B is freshly constructed with the same two player ids and
\* config as manager A and B.restore(A.serialize()) is called, then getState() is
\* equal on both, and any same sequence of nextPhase, setPhase, endTurn and
\* useAction calls applied to both yields equal results, equal errors and equal
\* states at every step; mutating the serialized value after restore does not
\* affect B.
C30_RestoredTwin ==
    /\ []TwinAgrees
    /\ [][call'.op = "mutate" /\ other.turnB # Null =>
             readState(other'.cells, other'.turnB[1])
                = readState(other.cells, other.turnB[1])]_vars

\* both managers have failed setPhase('invalid') alike in the second turn, the
\* first with a listener of either kind, after the caller set canPlayCards in
\* the serialized value
C30_Witness ==
    /\ other.turnB # Null
    /\ call.op = "both.setPhase" /\ call.threw /\ other.threw
    /\ state.turnNumber = 2 /\ readState(other.cells, other.turnB[1]).turnNumber = 2
    /\ Len(turnListeners) = 1 /\ Len(phaseListeners) = 1
    /\ snapshot.kind = "state"
    /\ readState(other.cells, snapshot.ref).phaseActionsRemaining["canPlayCards"]
    /\ readState(other.cells, snapshot.ref).phase = "start"

----------------------------------------------------------------------------
(* The end of a turn reached through nextPhase *)

\* C31: nextPhase() called in phase 'end' produces exactly the state endTurn() would
\* produce from the same state (turnNumber + 1, the other player active, phase
\* 'start', all five flags false), hands every registered turn listener exactly one
\* turn-change event (and nothing else to anyone), and returns {previousPhase: 'end',
\* newPhase: 'start', turnNumber: the incremented turn number}.
C31_NextPhaseAtEndIsEndTurn ==
    state.phase = "end" =>
        LET r == nextPhase(state, config, turnListeners, phaseListeners)
            e == endTurn(state, turnListeners)
            event == [kind |-> "turn", previousTurn |-> state.turnNumber,
                      newTurn |-> state.turnNumber + 1,
                      activePlayerId |-> OtherPlayer(state.activePlayerId)]
        IN /\ ~r.threw
           /\ r.st = e.st
           /\ r.st.turnNumber = state.turnNumber + 1
           /\ r.st.activePlayerId = OtherPlayer(state.activePlayerId)
           /\ r.st.phase = "start"
           /\ TrueFlags(r.st) = {}
           /\ r.delivered = e.delivered
           /\ Len(r.delivered) = Len(turnListeners)
           /\ Received(r.delivered) = Handed(turnListeners, event)
           /\ r.ret = [kind |-> "phase", previousPhase |-> "end", newPhase |-> "start",
                       turnNumber |-> state.turnNumber + 1]

\* nextPhase() has ended turn 1 from phase 'end' with a turn listener registered
C31_Witness ==
    /\ call.op = "nextPhase"
    /\ ~call.threw
    /\ call.ret.previousPhase = "end"
    /\ call.ret.turnNumber = 2
    /\ state.turnNumber = 2
    /\ state.activePlayerId = player2Id
    /\ Len(delivered) >= 1
    /\ delivered[1].event.kind = "turn"

----------------------------------------------------------------------------
(* The phase helpers, called next to a manager that changes phase *)

\* getNextPhase(currentPhase), also with a value outside the eight phases
GetNextPhaseCall ==
    /\ \E currentPhase \in PhaseArgs :
            call' = [op |-> "getNextPhase", arg |-> currentPhase, threw |-> FALSE,
                     ret |-> [kind |-> "phaseName", value |-> getNextPhase(currentPhase)]]
    /\ delivered' = <<>>
    /\ UNCHANGED <<turnVars, lifeVars, tokenVars, snapshot, other>>

\* isValidPhaseTransition(from, to), also with values outside the eight phases
IsValidPhaseTransitionCall ==
    /\ \E from \in PhaseArgs, to \in PhaseArgs :
            call' = [op |-> "isValidPhaseTransition", arg |-> from, threw |-> FALSE,
                     ret |-> [kind |-> "boolean", to |-> to,
                              value |-> isValidPhaseTransition(from, to)]]
    /\ delivered' = <<>>
    /\ UNCHANGED <<turnVars, lifeVars, tokenVars, snapshot, other>>

NextHelpers ==
    \/ NextPhaseCall
    \/ SetPhaseCall
    \/ GetNextPhaseCall
    \/ IsValidPhaseTransitionCall

SpecHelpers == Init /\ [][NextHelpers]_vars

\* C40: for every pair of valid phases (from, to), isValidPhaseTransition(from, to)
\* is true exactly when to is getNextPhase(from), which is the successor of from
\* in the fixed order or 'start' for 'end'; staying, skipping and moving backward
\* (other than 'end' to 'start') are invalid; getNextPhase of a value outside the
\* eight phases is 'start'; and every call made returned accordingly.
C40_PhaseHelpers ==
    /\ \A from \in PhaseSet, to \in PhaseSet :
            /\ isValidPhaseTransition(from, to) <=> (to = getNextPhase(from))
            /\ isValidPhaseTransition(from, to) <=>
                    IF from = "end" THEN to = "start" ELSE to = SuccessorOf[from]
            /\ indexOf(TURN_PHASES, to) > indexOf(TURN_PHASES, from) + 1
                    => ~isValidPhaseTransition(from, to)
            /\ (indexOf(TURN_PHASES, to) <= indexOf(TURN_PHASES, from)
                    /\ ~(from = "end" /\ to = "start"))
                    => ~isValidPhaseTransition(from, to)
    /\ \A v \in PhaseArgs \ PhaseSet : getNextPhase(v) = "start"
    /\ (call.op = "isValidPhaseTransition" /\ call.arg \in PhaseSet /\ call.ret.to \in PhaseSet)
            => call.ret.value = (call.ret.to = getNextPhase(call.arg))
    /\ (call.op = "getNextPhase" /\ call.arg \notin PhaseSet) => call.ret.value = "start"

\* isValidPhaseTransition('end', 'start') has returned true on a manager that has
\* itself reached phase 'end'
C40_Witness ==
    /\ call.op = "isValidPhaseTransition"
    /\ call.arg = "end"
    /\ call.ret.to = "start"
    /\ call.ret.value
    /\ state.phase = "end"

----------------------------------------------------------------------------
(* The turn counter and the active player *)

\* the turn-change events among the deliveries d that went to listener l
TurnEventsTo(d, l) ==
    {i \in 1..Len(d) : d[i].listener = l /\ d[i].event.kind = "turn"}

\* turnNumber >= 1, and the first configured player is active exactly on odd turns
TurnParity ==
    /\ state.turnNumber >= 1
    /\ (state.activePlayerId = player1Id) <=> (state.turnNumber % 2 = 1)
    /\ (state.activePlayerId = player2Id) <=> (state.turnNumber % 2 = 0)

\* a step adds to turnNumber the number of turn-change events it emitted: one for
\* endTurn and for nextPhase out of 'end', none otherwise, and that many reach
\* every registered turn listener
TurnCountStep ==
    LET emitted == IF call'.op = "endTurn"
                      \/ (call'.op = "nextPhase" /\ call'.ret.previousPhase = "end")
                   THEN 1 ELSE 0
    IN /\ state'.turnNumber >= state.turnNumber
       /\ state'.turnNumber = state.turnNumber + emitted
       /\ \A i \in 1..Len(turnListeners) :
              Cardinality(TurnEventsTo(delivered', turnListeners[i])) = emitted
       /\ \A i \in 1..Len(delivered') :
              delivered'[i].event.kind = "turn" =>
                  /\ delivered'[i].event.previousTurn = state.turnNumber
                  /\ delivered'[i].event.newTurn = state'.turnNumber

\* C37: in every state reached from construction by nextPhase, setPhase, endTurn and
\* useAction (and queries and listener registration, no restore), turnNumber >= 1
\* and the first configured player is active exactly when turnNumber is odd;
\* turnNumber starts at 1 with no event emitted, never decreases, and every step
\* adds to it exactly the number of turn-change events the step emitted, so that
\* turnNumber is 1 plus the number of turn-change events emitted so far.
C37_TurnCounterInStep ==
    /\ state.turnNumber = 1 /\ delivered = <<>>
    /\ []TurnParity
    /\ [][TurnCountStep]_vars

\* the second turn change has been delivered: turn 3, first player active again
C37_Witness ==
    /\ state.turnNumber = 3
    /\ state.activePlayerId = player1Id
    /\ Len(delivered) >= 1
    /\ delivered[1].event.kind = "turn"
    /\ delivered[1].event.newTurn = 3

----------------------------------------------------------------------------
(* A consumed action within one phase *)

\* the step follows a successful useAction(a) and stays in its phase and turn
AfterConsuming(ops) ==
    /\ call.op = "useAction"
    /\ ~call.threw
    /\ call'.op \in ops
    /\ state'.phase = state.phase
    /\ state'.turnNumber = state.turnNumber

\* C38: an action consumed with useAction stays unavailable until the phase changes:
\* after a successful useAction(a) in phase p, a setPhase, useAction or query call
\* that leaves the manager in phase p of the same turn (setPhase(p) included) leaves
\* canPerformAction(a) false.
C38_ConsumedStaysUnavailable ==
    [][AfterConsuming({"setPhase", "useAction", "getPhaseActions", "getState"})
            => ~canPerformAction(state', call.arg)]_vars

\* what does hold: useAction and the queries leave a consumed action unavailable
ConsumedKeptByUseAction ==
    [][AfterConsuming({"useAction", "getPhaseActions", "getState"})
            => ~canPerformAction(state', call.arg)]_vars

\* and setPhase(p) issued in phase p makes exactly the actions of p's row available,
\* whatever was consumed
SetPhaseSamePhaseResets ==
    \A a \in ActionNames :
        LET used == useAction(state, a) IN
        ~used.threw =>
            LET again == setPhase(used.st, state.phase, phaseListeners) IN
            /\ ~canPerformAction(used.st, a)
            /\ again.st.phase = state.phase
            /\ again.st.turnNumber = state.turnNumber
            /\ canPerformAction(again.st, a)

----------------------------------------------------------------------------
(* Registering a callback more than once *)

\* the calls among the deliveries d that went to listener l
DeliveriesTo(d, l) == {i \in 1..Len(d) : d[i].listener = l}

\* 0-based position of callback x in the listener list s, -1 if not registered
Position(s, x) == indexOf(s, x)

\* in each of the three listener sets as they are now, every callback registered
\* once more is registered once, at the position of its first registration, is
\* invoked once per event, and is not invoked after one remove
RegisteredOnce ==
    \A cb \in Listeners :
        /\ LET once == setAdd(turnListeners, cb)
               twice == setAdd(once, cb)
           IN /\ twice = once
              /\ Position(turnListeners, cb) # -1 => once = turnListeners
              /\ Position(twice, cb) = Position(once, cb)
              /\ Cardinality(DeliveriesTo(notifyTurnListeners(twice, Void), cb)) = 1
              /\ DeliveriesTo(notifyTurnListeners(setDelete(twice, cb), Void), cb) = {}
        /\ LET once == setAdd(phaseListeners, cb)
               twice == setAdd(once, cb)
           IN /\ twice = once
              /\ Position(phaseListeners, cb) # -1 => once = phaseListeners
              /\ Position(twice, cb) = Position(once, cb)
              /\ Cardinality(DeliveriesTo(notifyPhaseListeners(twice, Void), cb)) = 1
              /\ DeliveriesTo(notifyPhaseListeners(setDelete(twice, cb), Void), cb) = {}
        /\ LET once == addListener(lifeListeners, cb)
               twice == addListener(once, cb)
           IN /\ twice = once
              /\ Position(lifeListeners, cb) # -1 => once = lifeListeners
              /\ Position(twice, cb) = Position(once, cb)
              /\ Cardinality(DeliveriesTo(notifyListeners(twice, Void), cb)) = 1
              /\ DeliveriesTo(notifyListeners(removeListener(twice, cb), Void), cb) = {}

\* the listener list a step's call is about, before and after the step
ListenersOf(op, turn, phase, life) ==
    CASE op \in {"addTurnListener", "removeTurnListener", "endTurn"} -> turn
      [] op \in {"addPhaseListener", "removePhaseListener", "setPhase"} -> phase
      [] OTHER -> life

\* across the calls made: registering a registered callback changes nothing, one
\* remove leaves the callback unregistered, and a call that emits one event
\* invokes every registered callback once and no other
RegistrationStep ==
    /\ call'.op \in {"addTurnListener", "addPhaseListener", "addListener"} =>
        LET before == ListenersOf(call'.op, turnListeners, phaseListeners, lifeListeners)
            after == ListenersOf(call'.op, turnListeners', phaseListeners', lifeListeners')
        IN /\ Position(before, call'.arg) # -1 => after = before
           /\ Position(before, call'.arg) = -1 => after = Append(before, call'.arg)
           /\ NoDuplicates(after)
    /\ call'.op \in {"removeTurnListener", "removePhaseListener", "removeListener"} =>
        LET after == ListenersOf(call'.op, turnListeners', phaseListeners', lifeListeners')
        IN Position(after, call'.arg) = -1
    /\ (call'.op \in {"endTurn", "setPhase", "setLife", "dealDamage", "resetLife"}
            /\ ~call'.threw) =>
        LET registered == ListenersOf(call'.op, turnListeners, phaseListeners, lifeListeners)
        IN \A cb \in Listeners :
               Cardinality(DeliveriesTo(delivered', cb)) =
                   IF Position(registered, cb) # -1 THEN 1 ELSE 0

\* C39: registering the same callback more than once with addListener,
\* addTurnListener or addPhaseListener registers it once: it is invoked exactly once
\* per event, keeps the delivery position of its first registration, and a single
\* remove call stops all further deliveries to it.
C39_DuplicateRegistration ==
    []RegisteredOnce /\ [][RegistrationStep]_vars

\* addTurnListener(cb1) was called with cb1 registered before cb2: cb1 is still
\* first, and registered once
C39_Witness ==
    /\ call.op = "addTurnListener"
    /\ call.arg = "cb1"
    /\ turnListeners = <<"cb1", "cb2">>

----------------------------------------------------------------------------
(* A phase listener that follows the phase *)

\* right after construction the caller registers the logging callback for phase
\* changes
ListenPhaseCall ==
    /\ call.op = "constructor"
    /\ phaseListeners' = setAdd(phaseListeners, LoggingListener)
    /\ snapshot' = EmptyLog
    /\ Register("addPhaseListener", LoggingListener)
    /\ UNCHANGED <<state, config, turnListeners>>

\* and, or not, for turn changes as well
ListenTurnCall ==
    /\ call.op = "addPhaseListener"
    /\ turnListeners' = setAdd(turnListeners, LoggingListener)
    /\ Register("addTurnListener", LoggingListener)
    /\ UNCHANGED <<state, config, phaseListeners, snapshot>>

\* then the phase is changed by any sequence of nextPhase, setPhase and endTurn
NextPhaseLog ==
    \/ ListenPhaseCall
    \/ ListenTurnCall
    \/ snapshot.kind = "log" /\ NextPhaseCall
    \/ snapshot.kind = "log" /\ SetPhaseCall
    \/ snapshot.kind = "log" /\ EndTurnCall

SpecPhaseLog == Init /\ [][NextPhaseLog]_vars

\* the event the logging callback received last on a channel, if any
LastOn(channel) ==
    IF snapshot.kind = "log" /\ mapHas(snapshot.value.last, channel)
    THEN <<mapGet(snapshot.value.last, channel)>>
    ELSE <<>>

\* the newPhase of the last phase-change event received is the current phase
LastPhaseEventIsCurrent ==
    Len(LastOn("phase")) > 0 => LastOn("phase")[1].newPhase = getCurrentPhase(state)

\* a phase-change event received in a step starts from where the last one ended
PhaseEventsChain ==
    snapshot.kind = "log" =>
        \A i \in 1..Len(delivered') :
            (delivered'[i].listener = LoggingListener /\ delivered'[i].event.kind = "phase") =>
                delivered'[i].event.previousPhase =
                    IF Len(LastOn("phase")) > 0 THEN LastOn("phase")[1].newPhase ELSE "start"

\* C33: for a phase listener registered right after construction and never
\* removed, under any sequence of nextPhase, setPhase and endTurn, the
\* previousPhase of each delivered phase-change event equals the newPhase of the
\* previously delivered one ('start' for the first), and the newPhase of the last
\* delivered event equals getCurrentPhase().
C33_PhaseChangesReported ==
    []LastPhaseEventIsCurrent /\ [][PhaseEventsChain]_vars

\* what does hold: a callback registered for both kinds of event knows the phase
\* from the last event it received, 'start' after a turn change
PhaseKnownFromBothKinds ==
    (Len(turnListeners) = 1 /\ Len(LastOn("last")) > 0) =>
        getCurrentPhase(state) =
            IF LastOn("last")[1].kind = "turn" THEN "start" ELSE LastOn("last")[1].newPhase

----------------------------------------------------------------------------
(* A life listener that follows the life totals *)

\* on a fresh life manager the caller registers the logging callback
ListenLifeCall ==
    /\ call.op = "constructor"
    /\ lifeListeners' = addListener(lifeListeners, LoggingListener)
    /\ snapshot' = EmptyLog
    /\ call' = [op |-> "addListener", arg |-> LoggingListener, threw |-> FALSE, ret |-> Void]
    /\ delivered' = <<>>
    /\ UNCHANGED <<lifeTotals, lifeConfig, turnVars, tokenVars, other>>

\* in this specification the lives passed and stored are at most MaxLoggedLife
MaxLoggedLife == 2

LoggedLives == 0..MaxLoggedLife

InLoggedBound == \A i \in 1..Len(lifeTotals) : lifeTotals[i].value <= MaxLoggedLife

\* then the totals are written by any sequence of the methods that write them
NextLifeLog ==
    \/ ListenLifeCall
    \/ /\ snapshot.kind = "log"
       /\ \/ InitializePlayerCall({Null} \cup {<<n>> : n \in LoggedLives})
          \/ SetLifeWith(LoggedLives, {NoSource})
          \/ ChangeLifeWith({-1, 1})
          \/ DealDamageWith({1})
          \/ HealWith({1})
          \/ ResetLifeCall
          \/ ResetAllLifeCall
       /\ InLoggedBound'

InitLifeLog ==
    /\ TurnInit({TURN_DEFAULT_CONFIG})
    /\ LifeInit({[startingLife |-> 2, minLife |-> 0, maxLife |-> Null]})
    /\ TokenInit({TOKEN_DEFAULT_CONFIG})
    /\ CallerInit

SpecLifeLog == InitLifeLog /\ [][NextLifeLog]_vars

\* the newLife of the last event received for each player is the player's life
LastLifeEventIsCurrent ==
    \A p \in LifeIds :
        Len(LastOn(p)) > 0 => (mapHas(lifeTotals, p) /\ LastOn(p)[1] = getLife(lifeTotals, p).ret)

\* the life the callback knows a player to have before a step: the newLife of the
\* last event, or the life given at the first initialization
KnownLife(p) ==
    IF Len(LastOn(p)) > 0 THEN LastOn(p)
    ELSE IF snapshot.kind = "log" /\ mapHas(snapshot.value.first, p)
         THEN <<mapGet(snapshot.value.first, p)>>
         ELSE <<>>

\* the first event a step delivers for a player starts from the life known, and
\* each further one from the one before it
LifeEventsChain ==
    snapshot.kind = "log" =>
        \A i \in 1..Len(delivered') :
            delivered'[i].listener = LoggingListener =>
                LET e == delivered'[i].event
                    earlier == {j \in 1..(i - 1) :
                                   /\ delivered'[j].listener = LoggingListener
                                   /\ delivered'[j].event.playerId = e.playerId}
                IN IF earlier = {}
                   THEN <<e.previousLife>> = KnownLife(e.playerId)
                   ELSE e.previousLife =
                            delivered'[CHOOSE j \in earlier : \A k \in earlier : k <= j].event.newLife

\* C34: for a listener registered on a fresh LifeManager and never removed, under
\* any sequence of initializePlayer (re-initialization included), setLife,
\* changeLife, dealDamage, heal, resetLife and resetAllLife, the previousLife of each
\* event for a player equals the newLife of the previous event for that player (or
\* the life given at the player's first initialization), and the newLife of the
\* last event for a player equals getLife of that player.
C34_LifeChangesReported ==
    []LastLifeEventIsCurrent /\ [][LifeEventsChain]_vars

\* what does hold: every method but initializePlayer keeps the last event current,
\* and an event starts from the life stored before the call
LifeReportedButInitialize ==
    [][(call'.op # "initializePlayer" /\ snapshot.kind = "log") =>
           /\ LastLifeEventIsCurrent => LastLifeEventIsCurrent'
           /\ \A i \in 1..Len(delivered') :
                  (delivered'[i].listener = LoggingListener
                       /\ \A j \in 1..(i - 1) :
                              delivered'[j].event.playerId # delivered'[i].event.playerId)
                  => delivered'[i].event.previousLife =
                         mapGet(lifeTotals, delivered'[i].event.playerId)]_vars

----------------------------------------------------------------------------
(* What a callback finds in the manager while it runs *)

\* the flags a phase listener is to find: the row of the new phase, without
\* canDraw when nextPhase enters 'draw' on turn 1 and the first draw is skipped
FlagsInPlace(op, event) ==
    PhaseTable[event.newPhase] \
        (IF op = "nextPhase" /\ event.newPhase = "draw" /\ event.turnNumber = 1
               /\ config.skipFirstDraw
         THEN {"canDraw"} ELSE {})

\* C35: state is committed before notification.  While a life listener runs for
\* an event e (no callback calls back into the manager), getLife(e.playerId) is
\* e.newLife; while a turn listener runs, getTurnNumber() is e.newTurn,
\* getActivePlayerId() is e.activePlayerId and the phase is 'start'; while a phase
\* listener runs for nextPhase or setPhase, getCurrentPhase() is e.newPhase and the
\* action flags of the new phase, first-turn draw suppression included, are in
\* place; and what a turn or phase listener finds is the state the call leaves.
C35_CommittedBeforeNotification ==
    \A i \in 1..Len(delivered) :
        LET e == delivered[i].event
            seen == delivered[i].seen
        IN IF call.op \in {"nextPhase", "setPhase", "endTurn"}
           THEN /\ seen = state
                /\ e.kind = "turn" =>
                       /\ getTurnNumber(seen) = e.newTurn
                       /\ getActivePlayerId(seen) = e.activePlayerId
                       /\ getCurrentPhase(seen) = "start"
                /\ e.kind = "phase" =>
                       /\ call.op \in {"nextPhase", "setPhase"}
                       /\ getCurrentPhase(seen) = e.newPhase
                       /\ getTurnNumber(seen) = e.turnNumber
                       /\ {a \in ActionNames : getPhaseActions(seen)[a]} = FlagsInPlace(call.op, e)
                       /\ \A a \in ActionNames :
                              canPerformAction(seen, a) <=> a \in FlagsInPlace(call.op, e)
           ELSE /\ ~getLife(seen, e.playerId).threw
                /\ getLife(seen, e.playerId).ret = e.newLife

\* a phase listener has run for the nextPhase() that enters 'draw' on turn 1 and
\* found canDraw cleared
C35_Witness ==
    /\ call.op = "nextPhase"
    /\ Len(delivered) >= 1
    /\ delivered[1].event.newPhase = "draw"
    /\ delivered[1].event.turnNumber = 1
    /\ ~canPerformAction(delivered[1].seen, "canDraw")

\* two life listeners have run for one setLife that changed the total
LifeListenersRan ==
    /\ call.op = "setLife"
    /\ Len(delivered) = 2
    /\ delivered[2].event.change # 0
    /\ getLife(delivered[2].seen, call.arg).ret = call.ret.newLife

----------------------------------------------------------------------------
(* LifeManager: a callback that calls back into the manager *)

\* a callback that, handed an event that brings a player to 0, calls
\* setLife(event.playerId, 1, 'listener') on the manager that called it
CallingBackListener == "cb3"

callsBack(listener, event) == listener = CallingBackListener /\ event.newLife = 0

\* notifyListeners from the i-th registered callback on, and setLife, when a
\* callback may call setLife before it returns: the nested call stores its total
\* and runs all the callbacks for its own event, then the loop of the outer call
\* goes on with the outer event
RECURSIVE notifyListenersFrom(_, _, _, _, _)
RECURSIVE setLifeReentrant(_, _, _, _, _, _)
notifyListenersFrom(m, cfg, listeners, event, i) ==
    IF i > Len(listeners) THEN lifeReturn(m, Void)
    ELSE LET invocation == [listener |-> listeners[i], event |-> event,
                            caught |-> listeners[i] \in ThrowingListeners, seen |-> m]
             nested == IF callsBack(listeners[i], event)
                       THEN setLifeReentrant(m, cfg, listeners, event.playerId, 1, "listener")
                       ELSE lifeReturn(m, Void)
             rest == notifyListenersFrom(nested.map, cfg, listeners, event, i + 1)
         IN  [rest EXCEPT !.delivered = <<invocation>> \o nested.delivered \o rest.delivered]

setLifeReentrant(m, cfg, listeners, playerId, life, source) ==
    LET got == getLife(m, playerId)
    IN  IF got.threw THEN got
        ELSE LET previousLife == got.ret
                 clampedLife == clampLife(cfg, life)
                 written == mapSet(m, playerId, clampedLife)
                 event == [playerId |-> playerId, previousLife |-> previousLife,
                           newLife |-> clampedLife,
                           change |-> clampedLife - previousLife, source |-> source]
                 notified == notifyListenersFrom(written, cfg, listeners, event, 1)
             IN  [map |-> notified.map, threw |-> FALSE,
                  ret |-> event, delivered |-> notified.delivered]

changeLifeReentrant(m, cfg, listeners, playerId, amount, source) ==
    LET got == getLife(m, playerId)
    IN  IF got.threw THEN got
        ELSE setLifeReentrant(m, cfg, listeners, playerId, got.ret + amount, source)

ReentrantSetLifeCall ==
    \E playerId \in LifeIds, life \in 0..MaxLife :
        LifeApply("setLife", playerId,
                  setLifeReentrant(lifeTotals, lifeConfig, lifeListeners, playerId, life, NoSource))

ReentrantChangeLifeCall ==
    \E playerId \in LifeIds, amount \in {-1, 1} :
        LifeApply("changeLife", playerId,
                  changeLifeReentrant(lifeTotals, lifeConfig, lifeListeners, playerId, amount,
                                      NoSource))

\* the caller registers a recording callback and the calling-back one, in either
\* order, and writes life totals
NextReentrant ==
    \/ AddListenerCall({"cb1", CallingBackListener})
    \/ RemoveListenerCall({"cb1", CallingBackListener})
    \/ InitializePlayerCall({Null})
    \/ ReentrantSetLifeCall
    \/ ReentrantChangeLifeCall

SpecReentrant == InitLifeLog /\ [][NextReentrant]_vars

\* positions in the deliveries of the last call at which listener l was handed an
\* event of player p
HandedTo(l, p) ==
    {i \in 1..Len(delivered) : delivered[i].listener = l /\ delivered[i].event.playerId = p}

\* listener l was handed the events of player p in the order the totals were
\* stored: each starts from where the one before it ended, and the last one ends
\* at the total now stored
InOrderOfWrites(l, p) ==
    LET mine == HandedTo(l, p) IN
    /\ \A i \in mine, j \in mine :
           (i < j /\ ~\E k \in mine : i < k /\ k < j)
               => delivered[j].event.previousLife = delivered[i].event.newLife
    /\ mine # {} =>
           delivered[CHOOSE i \in mine : \A k \in mine : k <= i].event.newLife
               = getLife(lifeTotals, p).ret

\* C36: when a life listener itself calls setLife on the same manager during
\* delivery, every listener still receives the life-change events of a player in
\* the order in which the changes were applied to the stored total, so that after
\* the outermost call returns the newLife of the last event each listener received
\* for that player equals getLife(player).
C36_ReentrantOrder ==
    call.op \in {"setLife", "changeLife"} =>
        \A i \in 1..Len(lifeListeners), p \in LifeIds : InOrderOfWrites(lifeListeners[i], p)

\* what does hold: the calling-back listener and the callbacks registered before
\* it receive the events in the order of the writes
InOrderUpToCallingBack ==
    call.op \in {"setLife", "changeLife"} =>
        \A i \in 1..Len(lifeListeners), p \in LifeIds :
            (\E j \in i..Len(lifeListeners) : lifeListeners[j] = CallingBackListener)
                => InOrderOfWrites(lifeListeners[i], p)

\* and while no registered callback calls back, setLife is as modelled without
\* nested calls
AgreesWithoutCallingBack ==
    (\A i \in 1..Len(lifeListeners) : lifeListeners[i] # CallingBackListener) =>
        \A p \in LifeIds, life \in LifeArgs :
            setLifeReentrant(lifeTotals, lifeConfig, lifeListeners, p, life, NoSource)
                = setLife(lifeTotals, lifeConfig, lifeListeners, p, life, NoSource)

----------------------------------------------------------------------------
(* The default managers of the module *)

\* no more than MaxInstances managers are constructed
MaxInstances == 2

\* The module's variables defaultLifeManager and defaultTokenManager, null (Null)
\* at load or <<i>>, a reference to the i-th manager of its kind constructed, next
\* to the managers constructed so far.
ModuleLoaded ==
    [kind |-> "module", defaultLifeManager |-> Null, defaultTokenManager |-> Null,
     lifeManagers |-> <<>>, tokenManagers |-> <<>>]

\* new LifeManager() and new TokenManager()
newLifeManager == [map |-> <<>>, config |-> LIFE_DEFAULT_CONFIG, listeners |-> <<>>]

newTokenManager == [map |-> <<>>, config |-> TOKEN_DEFAULT_CONFIG]

\* mutation of getLifeManager: a manager is constructed on every call
getLifeManager_AlwaysNew(mod) ==
    LET made == [mod EXCEPT !.lifeManagers = Append(@, newLifeManager),
                            !.defaultLifeManager = <<Len(mod.lifeManagers) + 1>>]
    IN  [mod |-> made, ret |-> [kind |-> "manager", id |-> made.defaultLifeManager[1]]]

getLifeManager(mod) ==
    LET made == IF mod.defaultLifeManager = Null
                THEN [mod EXCEPT !.lifeManagers = Append(@, newLifeManager),
                                 !.defaultLifeManager = <<Len(mod.lifeManagers) + 1>>]
                ELSE mod
    IN  [mod |-> made, ret |-> [kind |-> "manager", id |-> made.defaultLifeManager[1]]]

resetLifeManager(mod) == [mod EXCEPT !.defaultLifeManager = Null]

getTokenManager(mod) ==
    LET made == IF mod.defaultTokenManager = Null
                THEN [mod EXCEPT !.tokenManagers = Append(@, newTokenManager),
                                 !.defaultTokenManager = <<Len(mod.tokenManagers) + 1>>]
                ELSE mod
    IN  [mod |-> made, ret |-> [kind |-> "manager", id |-> made.defaultTokenManager[1]]]

resetTokenManager(mod) == [mod EXCEPT !.defaultTokenManager = Null]

resetAlphaClash(mod) == resetLifeManager(resetTokenManager(mod))

\* startingLife is <<>> when the config leaves it out (default 20).  The object
\* returned keeps the two default managers it found or constructed.
initializeAlphaClash(mod, startingLifeArg) ==
    LET startingLife == IF startingLifeArg = Null THEN 20 ELSE startingLifeArg[1]
        lifeManager == getLifeManager(mod)
        tokenManager == getTokenManager(lifeManager.mod)
        h == lifeManager.ret.id
        it == tokenManager.mod.lifeManagers[h]
        self == initializePlayer(it.map, it.config, "self", <<startingLife>>)
        opponent == initializePlayer(self.map, it.config, "opponent", <<startingLife>>)
    IN  [mod |-> [tokenManager.mod EXCEPT !.lifeManagers[h].map = opponent.map],
         ret |-> [kind |-> "api", life |-> h, tokens |-> tokenManager.ret.id]]

\* how many managers have been constructed
Constructed(mod) == Len(mod.lifeManagers) + Len(mod.tokenManagers)

\* the managers the caller has kept a reference to, one of each kind at most, and
\* the object initializeAlphaClash returned last: <<>> or <<[life |-> h, tokens |-> k]>>,
\* the managers its functions work on
NoneHeld == [life |-> Null, tokens |-> Null, api |-> Null]

Held == IF snapshot.kind = "managers" THEN snapshot.value ELSE NoneHeld

\* the caller keeps what it held, or keeps the manager just returned instead
KeepOrReplace(held) ==
    \/ UNCHANGED snapshot
    \/ snapshot' = [kind |-> "managers", value |-> held, shared |-> {}]

\* a call on the module or on a manager it handed out
ModuleCall(op, arg, ret, mod) ==
    /\ other' = mod
    /\ call' = [op |-> op, arg |-> arg, threw |-> FALSE, ret |-> ret]
    /\ delivered' = <<>>
    /\ UNCHANGED <<turnVars, lifeVars, tokenVars>>

\* a call of a function of the object initializeAlphaClash returned, r being what
\* the method of the manager behind it gave.  The object's setPhase, endTurn and
\* nextPhase work on a TurnManager of its own, the manager Spec is about; its
\* sound and debug functions write no manager.
ApiCall(op, arg, r, ret, mod) ==
    /\ other' = mod
    /\ call' = [op |-> op, arg |-> arg, threw |-> r.threw, ret |-> IF r.threw THEN r.ret ELSE ret]
    /\ delivered' = IF "delivered" \in DOMAIN r THEN r.delivered ELSE <<>>
    /\ UNCHANGED <<turnVars, lifeVars, tokenVars, snapshot>>

GetLifeManagerCall ==
    /\ Constructed(getLifeManager(other).mod) <= MaxInstances
    /\ LET r == getLifeManager(other) IN
       /\ ModuleCall("getLifeManager", "", r.ret, r.mod)
       /\ KeepOrReplace([Held EXCEPT !.life = <<r.ret.id>>])

ResetLifeManagerCall ==
    /\ ModuleCall("resetLifeManager", "", Void, resetLifeManager(other))
    /\ UNCHANGED snapshot

GetTokenManagerCall ==
    /\ Constructed(getTokenManager(other).mod) <= MaxInstances
    /\ LET r == getTokenManager(other) IN
       /\ ModuleCall("getTokenManager", "", r.ret, r.mod)
       /\ KeepOrReplace([Held EXCEPT !.tokens = <<r.ret.id>>])

ResetTokenManagerCall ==
    /\ ModuleCall("resetTokenManager", "", Void, resetTokenManager(other))
    /\ UNCHANGED snapshot

ResetAlphaClashCall ==
    /\ ModuleCall("resetAlphaClash", "", Void, resetAlphaClash(other))
    /\ UNCHANGED snapshot

\* initializeAlphaClash(config), the caller keeping the managers of the object
\* returned or not
InitializeAlphaClashCall ==
    /\ Constructed(initializeAlphaClash(other, Null).mod) <= MaxInstances
    /\ \E startingLifeArg \in {Null, <<1>>} :
           LET r == initializeAlphaClash(other, startingLifeArg) IN
           /\ ModuleCall("initializeAlphaClash", startingLifeArg, r.ret, r.mod)
           /\ snapshot' = [kind |-> "managers", shared |-> {},
                           value |-> [Held EXCEPT !.api = <<[life |-> r.ret.life,
                                                             tokens |-> r.ret.tokens]>>]]

\* the players and amounts the functions of the object are called with:
\* api.setLife is called for a player of the game and for one the manager does
\* not have, api.changeLife and api.getLife for a player of the game
SetLifePlayers == {"self", foreignPlayerId}

ChangeLifePlayers == {"opponent"}

GetLifePlayers == {"self"}

ApiLifeArgs == {15}

ApiAmounts == {-3}

\* addToken through the object takes a count no further than MaxApiTokens
MaxApiTokens == 1

\* changeLife through the object takes a total no further than MaxLowered below
\* the default starting life
MaxLowered == 3

InApiBound(m, player) ==
    mapGet(m, player) >= LIFE_DEFAULT_CONFIG.startingLife - MaxLowered

\* api.setLife(player, amount): lifeManager.setLife(player, amount)
apiSetLife(it, player, amount) ==
    setLife(it.map, it.config, it.listeners, player, amount, NoSource)

\* api.changeLife(player, delta): lifeManager.changeLife(player, delta)
apiChangeLife(it, player, delta) ==
    changeLife(it.map, it.config, it.listeners, player, delta, NoSource)

\* api.addToken(cardId, tokenId, count = 1): tokenManager.addToken(cardId, tokenId, count)
apiAddToken(it, cardId, tokenId, countArg) ==
    addToken(it.map, it.config, cardId, tokenId,
             IF countArg = Null THEN <<1>> ELSE countArg)

\* api.removeToken(cardId, tokenId, count = 1)
apiRemoveToken(it, cardId, tokenId, countArg) ==
    removeToken(it.map, cardId, tokenId, IF countArg = Null THEN <<1>> ELSE countArg)

ApiSetLifeCall ==
    /\ Len(Held.api) > 0
    /\ \E player \in SetLifePlayers, amount \in ApiLifeArgs :
           LET h == Held.api[1].life
               r == apiSetLife(other.lifeManagers[h], player, amount)
           IN ApiCall("api.setLife", player, r, Void,
                      [other EXCEPT !.lifeManagers[h].map = r.map])

ApiChangeLifeCall ==
    /\ Len(Held.api) > 0
    /\ \E player \in ChangeLifePlayers, delta \in ApiAmounts :
           LET h == Held.api[1].life
               r == apiChangeLife(other.lifeManagers[h], player, delta)
           IN /\ IF r.threw THEN TRUE ELSE InApiBound(r.map, player)
              /\ ApiCall("api.changeLife", player, r, Void,
                         [other EXCEPT !.lifeManagers[h].map = r.map])

\* api.getLife(player): lifeManager.getLife(player)
ApiGetLifeCall ==
    /\ Len(Held.api) > 0
    /\ \E player \in GetLifePlayers :
           LET r == getLife(other.lifeManagers[Held.api[1].life].map, player)
           IN ApiCall("api.getLife", player, r, r.ret, other)

ApiAddTokenCall ==
    /\ Len(Held.api) > 0
    /\ \E tokenId \in {"damage-counter", "invalid-token"}, countArg \in {Null} :
           LET k == Held.api[1].tokens
               r == apiAddToken(other.tokenManagers[k], "card-1", tokenId, countArg)
           IN /\ IF r.threw THEN TRUE ELSE r.ret <= MaxApiTokens
              /\ ApiCall("api.addToken", "card-1", r, r.ret,
                         [other EXCEPT !.tokenManagers[k].map = r.map])

ApiRemoveTokenCall ==
    /\ Len(Held.api) > 0
    /\ \E countArg \in {Null} :
           LET k == Held.api[1].tokens
               r == apiRemoveToken(other.tokenManagers[k], "card-1", "damage-counter", countArg)
           IN ApiCall("api.removeToken", "card-1", r, r.ret,
                      [other EXCEPT !.tokenManagers[k].map = r.map])

\* api.getTokens(cardId): tokenManager.getTokensOnCard(cardId)
ApiGetTokensCall ==
    /\ Len(Held.api) > 0
    /\ LET it == other.tokenManagers[Held.api[1].tokens]
       IN ApiCall("api.getTokens", "card-1",
                  [threw |-> FALSE], getTokensOnCard(it.map, "card-1"), other)

\* api.clearTokens(cardId): tokenManager.clearTokens(cardId)
ApiClearTokensCall ==
    /\ Len(Held.api) > 0
    /\ LET k == Held.api[1].tokens
           r == clearTokens(other.tokenManagers[k].map, "card-1")
       IN ApiCall("api.clearTokens", "card-1", r, Void,
                  [other EXCEPT !.tokenManagers[k].map = r.map])

\* initializePlayer on the life manager the caller holds
HeldInitializePlayerCall ==
    /\ Held.life # Null
    /\ \E startingLife \in {Null} :
           LET h == Held.life[1]
               it == other.lifeManagers[h]
               r == initializePlayer(it.map, it.config, player1Id, startingLife)
           IN ModuleCall("held.initializePlayer", player1Id, r.ret,
                         [other EXCEPT !.lifeManagers[h].map = r.map])
    /\ UNCHANGED snapshot

\* addListener on the life manager the caller holds
HeldAddListenerCall ==
    /\ Held.life # Null
    /\ LET h == Held.life[1]
           it == other.lifeManagers[h]
       IN ModuleCall("held.addListener", "cb1", Void,
                     [other EXCEPT !.lifeManagers[h].listeners = addListener(it.listeners, "cb1")])
    /\ UNCHANGED snapshot

\* addToken on the token manager the caller holds, while it has no tokens
HeldAddTokenCall ==
    /\ Held.tokens # Null
    /\ LET h == Held.tokens[1]
           it == other.tokenManagers[h]
           r == addToken(it.map, it.config, "card-1", "damage-counter", Null)
       IN /\ Len(it.map) = 0
          /\ ModuleCall("held.addToken", "card-1", r.ret,
                        [other EXCEPT !.tokenManagers[h].map = r.map])
    /\ UNCHANGED snapshot

NextDefaults ==
    \/ GetLifeManagerCall
    \/ ResetLifeManagerCall
    \/ GetTokenManagerCall
    \/ ResetTokenManagerCall
    \/ ResetAlphaClashCall
    \/ InitializeAlphaClashCall
    \/ ApiSetLifeCall
    \/ ApiChangeLifeCall
    \/ ApiGetLifeCall
    \/ ApiAddTokenCall
    \/ ApiRemoveTokenCall
    \/ ApiGetTokensCall
    \/ ApiClearTokensCall
    \/ HeldInitializePlayerCall
    \/ HeldAddListenerCall
    \/ HeldAddTokenCall

\* the module as loaded, nothing held by the caller; where a window exists loading
\* goes on to call initializeAlphaClash(), the first step of such a behaviour
InitDefaults ==
    /\ TurnInit({TURN_DEFAULT_CONFIG})
    /\ LifeInit({LIFE_DEFAULT_CONFIG})
    /\ TokenInit({TOKEN_DEFAULT_CONFIG})
    /\ snapshot = NoSnapshot
    /\ other = ModuleLoaded
    /\ call = [op |-> "load", arg |-> "", threw |-> FALSE, ret |-> Void]
    /\ delivered = <<>>

SpecDefaults == InitDefaults /\ [][NextDefaults]_vars

\* managers 1..n are in after what they were in before
SameManagers(before, after, n) == \A i \in 1..n : after[i] = before[i]

\* a get call returns the manager the variable refers to, and while the variable
\* is null constructs one first: a manager that was not there before, without
\* players or tokens and without listeners, whatever the earlier ones hold
GetReturnsDefault(op, slot, slotAfter, managers, managersAfter, fresh) ==
    call'.op = op =>
        IF slot # Null
        THEN /\ call'.ret.id = slot[1]
             /\ slotAfter = slot
             /\ managersAfter = managers
        ELSE /\ call'.ret.id = Len(managers) + 1
             /\ slotAfter = <<call'.ret.id>>
             /\ Len(managersAfter) = Len(managers) + 1
             /\ SameManagers(managers, managersAfter, Len(managers))
             /\ managersAfter[call'.ret.id] = fresh
             /\ Len(managersAfter[call'.ret.id].map) = 0

\* initializeAlphaClash works on the managers the variables refer to, constructing
\* one while a variable is null: a manager that was not there before, which has
\* the two players of the game and no listeners (resp. no tokens), whatever the
\* earlier ones hold
InitializeUsesDefaults ==
    LET h == call'.ret.life
        k == call'.ret.tokens
    IN  /\ other'.defaultLifeManager = <<h>>
        /\ other'.defaultTokenManager = <<k>>
        /\ other.defaultLifeManager # Null => other.defaultLifeManager = <<h>>
        /\ other.defaultTokenManager # Null => other.defaultTokenManager = <<k>>
        /\ \A i \in 1..Len(other.lifeManagers) :
               i # h => other'.lifeManagers[i] = other.lifeManagers[i]
        /\ SameManagers(other.tokenManagers, other'.tokenManagers, Len(other.tokenManagers))
        /\ other.defaultLifeManager = Null =>
               /\ h = Len(other.lifeManagers) + 1
               /\ mapKeys(other'.lifeManagers[h].map) = <<"self", "opponent">>
               /\ Len(other'.lifeManagers[h].listeners) = 0
        /\ other.defaultTokenManager = Null =>
               /\ k = Len(other.tokenManagers) + 1
               /\ other'.tokenManagers[k] = newTokenManager

DefaultsStep ==
    /\ GetReturnsDefault("getLifeManager", other.defaultLifeManager, other'.defaultLifeManager,
                         other.lifeManagers, other'.lifeManagers, newLifeManager)
    /\ GetReturnsDefault("getTokenManager", other.defaultTokenManager,
                         other'.defaultTokenManager,
                         other.tokenManagers, other'.tokenManagers, newTokenManager)
    /\ (call'.op = "getLifeManager" /\ other.defaultLifeManager = Null) =>
           Len(other'.lifeManagers[call'.ret.id].listeners) = 0
    /\ call'.op \in {"resetLifeManager", "resetAlphaClash"} =>
           other'.defaultLifeManager = Null /\ other'.lifeManagers = other.lifeManagers
    /\ call'.op \in {"resetTokenManager", "resetAlphaClash"} =>
           other'.defaultTokenManager = Null /\ other'.tokenManagers = other.tokenManagers
    /\ call'.op \notin {"getLifeManager", "resetLifeManager", "resetAlphaClash",
                        "initializeAlphaClash"} =>
           other'.defaultLifeManager = other.defaultLifeManager
    /\ call'.op \notin {"getTokenManager", "resetTokenManager", "resetAlphaClash",
                        "initializeAlphaClash"} =>
           other'.defaultTokenManager = other.defaultTokenManager
    /\ call'.op = "initializeAlphaClash" => InitializeUsesDefaults
    /\ call'.op \in {"held.initializePlayer", "held.addListener"} =>
           \A i \in 1..Len(other.lifeManagers) :
               i # Held.life[1] => other'.lifeManagers[i] = other.lifeManagers[i]
    /\ call'.op = "held.addToken" =>
           \A i \in 1..Len(other.tokenManagers) :
               i # Held.tokens[1] => other'.tokenManagers[i] = other.tokenManagers[i]
    /\ call'.op \in {"api.setLife", "api.changeLife", "api.getLife"} =>
           /\ other'.tokenManagers = other.tokenManagers
           /\ \A i \in 1..Len(other.lifeManagers) :
                  i # Held.api[1].life => other'.lifeManagers[i] = other.lifeManagers[i]
    /\ call'.op \in {"api.addToken", "api.removeToken", "api.getTokens", "api.clearTokens"} =>
           /\ other'.lifeManagers = other.lifeManagers
           /\ \A i \in 1..Len(other.tokenManagers) :
                  i # Held.api[1].tokens => other'.tokenManagers[i] = other.tokenManagers[i]

\* the variable refers to a manager that was constructed
DefaultsExist ==
    /\ other.defaultLifeManager # Null => other.defaultLifeManager[1] \in 1..Len(other.lifeManagers)
    /\ other.defaultTokenManager # Null =>
           other.defaultTokenManager[1] \in 1..Len(other.tokenManagers)

\* C32: getLifeManager() (resp. getTokenManager()) returns the same instance on
\* every call until resetLifeManager() (resp. resetTokenManager()) is called; the
\* first call after a reset returns a new instance with no players (resp. no
\* tokens) and no listeners, and state written through the previous instance is
\* not visible through the new one.
C32_DefaultSingletons ==
    []DefaultsExist /\ [][DefaultsStep]_vars

\* getLifeManager() has returned the second manager, which has no player, after
\* the caller wrote a player into the first, which it still holds
C32_Witness ==
    /\ call.op = "getLifeManager"
    /\ call.ret.id = 2
    /\ Held.life = <<1>>
    /\ Len(other.lifeManagers[1].map) = 1
    /\ Len(other.lifeManagers[1].listeners) = 1
    /\ Len(other.lifeManagers[2].map) = 0
    /\ Len(other.lifeManagers[2].listeners) = 0

\* the same of getTokenManager()
TokenDefaultReplaced ==
    /\ call.op = "getTokenManager"
    /\ call.ret.id = 2
    /\ Held.tokens = <<1>>
    /\ Len(other.tokenManagers[1].map) = 1
    /\ Len(other.tokenManagers[2].map) = 0

============================================================================
